---- MODULE Spec2Model ----
(***************************************************************************)
(* Model of the Schulmanager Home-Assistant integration:                   *)
(*   - CooldownManager and the coordinator's manual refresh                *)
(*     (custom_components/schulmanager/utils.py, coordinator.py,           *)
(*      button.py, __init__.py)                                            *)
(*   - SchulmanagerClient: login, bundle-version discovery, the RPC call   *)
(*     wrapper and async_update (custom_components/schulmanager/           *)
(*     api_client.py)                                                      *)
(*   - the coordinator's events for new homework and grades, the config   *)
(*     entry's platforms, the homework todo list and the grade sensor's   *)
(*     parser (coordinator.py, __init__.py, todo.py, sensor.py)           *)
(* Time is counted in ticks of 1/TicksPerSecond second, the resolution at  *)
(* which datetime.now() is observed.                                       *)
(***************************************************************************)
EXTENDS Integers, Sequences, FiniteSets, TLC

VARIABLES
    now,                  \* datetime.now(), in ticks
    last_manual_refresh,  \* CooldownManager._last_manual_refresh (None or ticks)
    refresh_cooldown,     \* config_entry.options.get(OPT_REFRESH_COOLDOWN)
    elapsed,              \* history: ticks advanced since the last record_refresh()
    pc,                   \* manual-refresh callers: "idle" or "refreshing"
    manualResult,         \* outcome of the most recent manual refresh request
    lastDispatchAt,       \* history: time of the last async_request_refresh() call
    token,                \* SchulmanagerClient._token
    bundle_version,       \* SchulmanagerClient._bundle_version
    students,             \* SchulmanagerClient._students (sequence of student ids)
    multiple_accounts,    \* SchulmanagerClient._multiple_accounts (number of accounts, 0: None)
    subjects_cache,       \* SchulmanagerClient._subjects_cache is non-empty
    data,                 \* SchulmanagerClient.data
    tasks,                \* the coroutines running on the client, each at its await
    loginSinceClear,      \* history: a login request was sent since the last clear_auth_cache()
    discoverySinceClear,  \* history: an index request was sent since the last clear_auth_cache()
    subjectRequests,      \* history: no, one, or more than one subject-list request was sent
    response,             \* the HTTP response _api_call reads (status, body)
    returned,             \* what _api_call did with it: pending, return value, or exception
    institution_id,       \* SchulmanagerClient._institution_id
    attempt,              \* one async_login coroutine: position, password, outcome
    arg,                  \* the argument of a function of the client run on its own
    res,                  \* its result (pending until it has run)
    initial_refresh_done, \* SchulmanagerCoordinator._initial_refresh_done
    seen_homework,        \* SchulmanagerCoordinator._seen_homework
    seen_grades,          \* SchulmanagerCoordinator._seen_grades
    fired_events,         \* the events the latest _async_update_data put on the bus
    refreshLog,           \* history: the keys of the payloads refreshed so far
    config_entry,         \* the config entry: options, state, platforms set up for it
    unloadLog,            \* history: what the latest async_unload_entry asked for and found
    todo_items,           \* HomeworkTodoList._attr_todo_items (None and [] alike: <<>>)
    todoLog               \* history: the list before the latest update, the statuses set

cooldownVars == <<now, last_manual_refresh, refresh_cooldown, elapsed>>
manualVars == <<pc, manualResult, lastDispatchAt>>
clientVars == <<token, bundle_version, students, multiple_accounts, subjects_cache,
                data, tasks, loginSinceClear, discoverySinceClear,
                   subjectRequests>>
rpcVars == <<response, returned>>
authVars == <<institution_id, attempt>>
pureVars == <<arg, res>>
eventVars == <<initial_refresh_done, seen_homework, seen_grades, fired_events, refreshLog>>
entryVars == <<config_entry, unloadLog>>
todoVars == <<todo_items, todoLog>>
hassVars == <<eventVars, entryVars, todoVars>>
vars == <<now, last_manual_refresh, refresh_cooldown, elapsed,
          pc, manualResult, lastDispatchAt,
          token, bundle_version, students, multiple_accounts, subjects_cache,
          data, tasks, loginSinceClear, discoverySinceClear, subjectRequests,
          response, returned,
          institution_id, attempt, arg, res,
          initial_refresh_done, seen_homework, seen_grades, fired_events, refreshLog,
          config_entry, unloadLog, todo_items, todoLog>>

\* None for a nullable time or number (times and option values are >= 0)
None == 0 - 1
NoOption == 0 - 1

\* ---------------------------------------------------------------- bounds
TicksPerSecond == 2
MaxMinutes == 32
MaxManualMinutes == 12
MaxSubTicks == 1
NumCallers == 2

\* ------------------------------------------------------- program constants
SecondsPerMinute == 60
DEFAULT_REFRESH_COOLDOWN == 5
MIN_REFRESH_COOLDOWN == 5
MAX_REFRESH_COOLDOWN == 30

TicksPerMinute == SecondsPerMinute * TicksPerSecond

Max(a, b) == IF a >= b THEN a ELSE b
Min(a, b) == IF a <= b THEN a ELSE b

\* Values the refresh_cooldown option may hold (minutes), or no option at all.
CooldownOptions == {NoOption, 1, 5, 6, 30, 45}
ManualOptions == {NoOption, 1, 6}

Callers == 1 .. NumCallers

\* ------------------------------------------------------------------ utils.py
\* get_validated_refresh_cooldown, lines 117-123
get_validated_refresh_cooldown(options) ==
    LET cooldown_minutes == IF options = NoOption THEN DEFAULT_REFRESH_COOLDOWN
                            ELSE options
    IN  Max(MIN_REFRESH_COOLDOWN, Min(MAX_REFRESH_COOLDOWN, cooldown_minutes))

\* timedelta(minutes=cooldown_minutes), in ticks
cooldown_period == get_validated_refresh_cooldown(refresh_cooldown) * TicksPerMinute

can_refresh_strict ==
    IF last_manual_refresh = None THEN TRUE
    ELSE now - last_manual_refresh > cooldown_period

can_refresh ==
    IF last_manual_refresh = None THEN TRUE
    ELSE now - last_manual_refresh >= cooldown_period

\* int(remaining.total_seconds()): truncation of a non-negative duration
get_remaining_cooldown ==
    IF last_manual_refresh = None THEN 0
    ELSE IF now - last_manual_refresh >= cooldown_period THEN 0
    ELSE (cooldown_period - (now - last_manual_refresh)) \div TicksPerSecond

record_refresh ==
    /\ last_manual_refresh' = now
    /\ elapsed' = 0

\* ------------------------------------------------------------ coordinator.py
is_manual_refresh_allowed == can_refresh
get_cooldown_remaining_seconds == get_remaining_cooldown

\* A variant that dispatches the refresh without stamping it first.
async_request_manual_refresh_nostamp(p, kind) ==
    /\ pc[p] = "idle"
    /\ IF ~is_manual_refresh_allowed
       THEN /\ manualResult' = [raised |-> kind,
                                remaining |-> get_cooldown_remaining_seconds]
            /\ UNCHANGED <<last_manual_refresh, elapsed, pc, lastDispatchAt>>
       ELSE /\ UNCHANGED <<last_manual_refresh, elapsed>>
            /\ manualResult' = [raised |-> "none", remaining |-> 0]
            /\ pc' = [pc EXCEPT ![p] = "refreshing"]
            /\ lastDispatchAt' = now
    /\ UNCHANGED <<now, refresh_cooldown, clientVars, rpcVars, hassVars, authVars, pureVars>>

\* A variant that stamps the refresh also when the request is rejected.
async_request_manual_refresh_stamp(p, kind) ==
    /\ pc[p] = "idle"
    /\ record_refresh
    /\ IF ~is_manual_refresh_allowed
       THEN /\ manualResult' = [raised |-> kind,
                                remaining |-> get_cooldown_remaining_seconds]
            /\ UNCHANGED <<pc, lastDispatchAt>>
       ELSE /\ manualResult' = [raised |-> "none", remaining |-> 0]
            /\ pc' = [pc EXCEPT ![p] = "refreshing"]
            /\ lastDispatchAt' = now
    /\ UNCHANGED <<now, refresh_cooldown, clientVars, rpcVars, hassVars, authVars, pureVars>>

\* SchulmanagerCoordinator.async_request_manual_refresh up to its await:
\* the check, the raise or the stamp, and the call of async_request_refresh()
\* run without a suspension point in between.  kind is the exception type the
\* entry point lets the caller see.
async_request_manual_refresh(p, kind) ==
    /\ pc[p] = "idle"
    /\ IF ~is_manual_refresh_allowed
       THEN /\ manualResult' = [raised |-> kind,
                                remaining |-> get_cooldown_remaining_seconds]
            /\ UNCHANGED <<last_manual_refresh, elapsed, pc, lastDispatchAt>>
       ELSE /\ record_refresh
            /\ manualResult' = [raised |-> "none", remaining |-> 0]
            /\ pc' = [pc EXCEPT ![p] = "refreshing"]
            /\ lastDispatchAt' = now
    /\ UNCHANGED <<now, refresh_cooldown, clientVars, rpcVars, hassVars, authVars, pureVars>>

\* button.py: RefreshButton.async_press re-raises every error as
\* ServiceValidationError(str(err)).
async_press(p) == async_request_manual_refresh(p, "ServiceValidationError")

\* __init__.py: refresh_service lets the coordinator's HomeAssistantError through.
refresh_service(p) == async_request_manual_refresh(p, "HomeAssistantError")

\* The awaited async_request_refresh() returns.
RefreshReturns(p) ==
    /\ pc[p] = "refreshing"
    /\ pc' = [pc EXCEPT ![p] = "idle"]
    /\ UNCHANGED <<cooldownVars, manualResult, lastDispatchAt, clientVars, rpcVars, hassVars, authVars, pureVars>>

\* ---------------------------------------------------------------- the clock
Advance(d, horizon) ==
    /\ now + d <= horizon * TicksPerMinute + MaxSubTicks
    /\ (now + d) % TicksPerMinute <= MaxSubTicks
    /\ now' = now + d
    /\ elapsed' = IF elapsed = None THEN None ELSE elapsed + d
    /\ UNCHANGED <<last_manual_refresh, refresh_cooldown>>

\* Clock advances: one tick, one tick short of a minute, a whole minute.
Advances == {1, TicksPerMinute - 1, TicksPerMinute}

Tick == \E d \in Advances : Advance(d, MaxMinutes) /\ UNCHANGED <<manualVars, hassVars, clientVars, rpcVars, authVars, pureVars>>

ManualTick == \E d \in Advances : Advance(d, MaxManualMinutes) /\ UNCHANGED <<manualVars, hassVars, clientVars, rpcVars, authVars, pureVars>>

RecordRefresh ==
    /\ record_refresh
    /\ UNCHANGED <<now, refresh_cooldown, manualVars, hassVars, clientVars, rpcVars, authVars, pureVars>>

\* ------------------------------------------------------------ api_client.py
NoToken == "none"
NoBundle == "none"

\* Values the server hands out.
Tokens == {"jwt1"}
RaceTokens == {"jwt1", "jwt2"}
Versions == {"a1b2c3d4e5"}
Rosters == {<<>>, <<"s1">>, <<"s1", "s2">>}
RaceRosters == {<<"s1">>}

\* bounds of the responses
MaxScripts == 2
MaxCourses == 1
MaxAccounts == 2

\* async_update's order of the features of one student
FeatureOrder == <<"homework", "schedule", "exams", "grades">>
Features == {FeatureOrder[k] : k \in DOMAIN FeatureOrder}
\* the enabled_features configurations explored
EnabledSets == {{}, {"homework", "exams"}, {"schedule", "grades"}, Features}

Range(s) == {s[k] : k \in DOMAIN s}
Again(c) == IF c = "none" THEN "once" ELSE "repeated"

EmptyEntries == [x \in {} |-> "empty"]
\* client.data; replaced is history: the entries of the snapshot it replaced
NoData ==
    [present |-> FALSE, students |-> <<>>, entries |-> EmptyEntries,
     replaced |-> EmptyEntries]

Unsent == "unsent"
\* A coroutine that is not running.  result, attempted and raised are the
\* locals of async_update (result dict, the fetches begun, the fetches whose
\* exception the loop caught); nLogin and nIndex tell whether it sent
\* no, one, or more than one login request and index-page request; stale:
\* clear_auth_cache() ran while it was suspended; auth: the token in the
\* Authorization header of its request to the calls endpoint in flight.
IdleTask ==
    [op |-> "idle", wait |-> "none", site |-> "none", scripts |-> 0,
     roster |-> <<>>, i |-> 0, f |-> 0, courses |-> 0, enabled |-> {},
     loop |-> FALSE, result |-> EmptyEntries, attempted |-> <<>>, raised |-> {},
     outcome |-> "none", nLogin |-> "none", nIndex |-> "none", stale |-> FALSE,
     auth |-> Unsent]

\* The client together with the one coroutine that takes the step.
Machine(t) ==
    [token |-> token, bundle |-> bundle_version, students |-> students,
     multi |-> multiple_accounts, subj |-> subjects_cache, data |-> data,
     lsc |-> loginSinceClear, dsc |-> discoverySinceClear,
     nsub |-> subjectRequests, t |-> tasks[t]]

Store(t, m) ==
    /\ token' = m.token
    /\ bundle_version' = m.bundle
    /\ students' = m.students
    /\ multiple_accounts' = m.multi
    /\ subjects_cache' = m.subj
    /\ data' = m.data
    /\ loginSinceClear' = m.lsc
    /\ discoverySinceClear' = m.dsc
    /\ subjectRequests' = m.nsub
    /\ tasks' = [tasks EXCEPT ![t] = m.t]

\* The coroutine returns or raises to its caller outside the client.
Finish(m, how) ==
    [m EXCEPT !.t.op = "idle", !.t.wait = "none", !.t.site = "none",
              !.t.scripts = 0, !.t.courses = 0, !.t.outcome = how]

\* Requests: each is an await, the coroutine is suspended until the response.
SendSalt(m, site) ==
    [m EXCEPT !.t.wait = "salt", !.t.site = site]
SendLogin(m) ==
    [m EXCEPT !.t.wait = "login", !.t.nLogin = Again(@), !.lsc = TRUE]
SendIndex(m, site) ==
    [m EXCEPT !.t.wait = "index", !.t.site = site, !.t.nIndex = Again(@),
              !.dsc = TRUE]
SendScript(m, n) ==
    [m EXCEPT !.t.wait = "script", !.t.scripts = n]
PostCalls(m) ==
    [m EXCEPT !.t.wait = "calls", !.t.site = "none", !.t.auth = m.token]
PostSubjects(m) ==
    [m EXCEPT !.t.wait = "subjects", !.t.site = "none", !.nsub = Again(@),
              !.t.auth = m.token]

RECURSIVE UpdFeature(_), FeatureDone(_, _, _), Subjects(_)

CurPair(m) == <<m.t.roster[m.t.i], FeatureOrder[m.t.f]>>

\* A variant in which an exception drops the token on its way out.
Raise_drop_token(m) ==
    IF m.t.op = "update" /\ m.t.loop
    THEN FeatureDone([m EXCEPT !.token = NoToken], "empty", TRUE)
    ELSE Finish([m EXCEPT !.token = NoToken], "raised")

\* An exception leaves the current call: async_update's loop catches it
\* (except Exception, lines 1318, 1337, 1368, 1379); anywhere else it reaches
\* the caller of the coroutine.
Raise(m) ==
    IF m.t.op = "update" /\ m.t.loop THEN FeatureDone(m, "empty", TRUE)
    ELSE Finish(m, "raised")

\* A fetch returns val.
FeatureResult(m, val) ==
    IF m.t.op = "update" THEN FeatureDone(m, val, FALSE)
    ELSE Finish(m, "returned")

\* ensure_authenticated returned: _api_call or _fetch_subjects posts.
AfterEnsure(m) ==
    IF m.t.site = "subjects" THEN PostSubjects(m) ELSE PostCalls(m)

\* async_update lines 1300-1309: result and the loop over self._students
UpdLoopInit(m) ==
    UpdFeature([m EXCEPT !.t.loop = TRUE, !.t.roster = m.students,
                         !.t.i = 1, !.t.f = 1, !.t.site = "none",
                         !.t.wait = "none"])

\* A variant in which the fetchers post their request whatever discovery found.
DiscoverReturn_lenient(m0, v) ==
    LET m == [m0 EXCEPT !.t.scripts = 0]
    IN  CASE m.t.site = "pre" -> UpdLoopInit(m)
          [] m.t.site \in {"api", "subjects"} -> AfterEnsure([m EXCEPT !.bundle = v])
          [] m.t.site = "feature" -> PostCalls(m)
          [] m.t.site = "discover" -> Finish([m EXCEPT !.bundle = v], "returned")

\* _discover_bundle_version returned v to its call site.
DiscoverReturn(m0, v) ==
    LET m == [m0 EXCEPT !.t.scripts = 0]
    IN  CASE m.t.site = "pre" -> UpdLoopInit(m)
          [] m.t.site \in {"api", "subjects"} -> AfterEnsure([m EXCEPT !.bundle = v])
          [] m.t.site = "feature" -> IF v = NoBundle THEN Raise(m) ELSE PostCalls(m)
          [] m.t.site = "discover" -> Finish([m EXCEPT !.bundle = v], "returned")

\* _discover_bundle_version, lines 256-267
Discover(m, site) ==
    IF m.bundle # NoBundle
    THEN DiscoverReturn([m EXCEPT !.t.site = site], m.bundle)
    ELSE SendIndex(m, site)

\* ensure_authenticated, utils.py lines 50-51
Ensure2(m) ==
    IF m.bundle = NoBundle THEN Discover(m, m.t.site) ELSE AfterEnsure(m)

\* A variant of ensure_authenticated that logs in on every call.
Ensure_always_login(m, site) == SendSalt(m, site)

\* ensure_authenticated, utils.py lines 48-49
Ensure(m, site) ==
    IF m.token = NoToken THEN SendSalt(m, site)
    ELSE Ensure2([m EXCEPT !.t.site = site])

\* async_update lines 1288-1289
UpdPre2(m) ==
    IF m.bundle = NoBundle THEN SendIndex(m, "pre") ELSE UpdLoopInit(m)

\* async_update lines 1286-1287
UpdPre1(m) ==
    IF m.token = NoToken THEN SendSalt(m, "pre") ELSE UpdPre2(m)

\* async_login returned to its call site.
LoginReturn(m) ==
    CASE m.t.site = "pre" -> UpdPre2(m)
      [] m.t.site \in {"api", "subjects"} -> Ensure2(m)
      [] m.t.site = "login" -> Finish(m, "returned")

\* _process_grades_data lines 1186-1196: one _derive_subject_info, hence one
\* _fetch_subjects, per course that has a subjectId.
Subjects(m) ==
    IF m.t.courses = 0 THEN FeatureResult(m, "data")
    ELSE IF m.subj THEN Subjects([m EXCEPT !.t.courses = @ - 1])
    ELSE Ensure(m, "subjects")

\* A variant of the loop in which a failed fetch ends the update.
FeatureDone_abort(m, val, raisedFlag) ==
    IF raisedFlag THEN Finish(m, "raised")
    ELSE UpdFeature([m EXCEPT
             !.t.result = (CurPair(m) :> val) @@ @,
             !.t.courses = 0, !.t.scripts = 0, !.t.site = "none", !.t.wait = "none",
             !.t.i = IF m.t.f = Len(FeatureOrder) THEN @ + 1 ELSE @,
             !.t.f = IF m.t.f = Len(FeatureOrder) THEN 1 ELSE @ + 1])

\* One feature of one student is settled (fetched, defaulted after an
\* exception, or disabled): store the entry, go on with the next feature.
FeatureDone(m, val, raisedFlag) ==
    UpdFeature([m EXCEPT
        !.t.result = (CurPair(m) :> val) @@ @,
        !.t.raised = IF raisedFlag THEN @ \cup {CurPair(m)} ELSE @,
        !.t.courses = 0, !.t.scripts = 0, !.t.site = "none", !.t.wait = "none",
        !.t.i = IF m.t.f = Len(FeatureOrder) THEN @ + 1 ELSE @,
        !.t.f = IF m.t.f = Len(FeatureOrder) THEN 1 ELSE @ + 1])

\* A variant of the loop that keeps the old snapshot's entry where this cycle
\* has no data.
UpdFeature_merge(m) ==
    IF m.t.i > Len(m.t.roster)
    THEN Finish([m EXCEPT !.data =
                    [present |-> TRUE, students |-> m.t.roster,
                     entries |-> [p \in DOMAIN m.t.result |->
                                     IF m.t.result[p] = "empty"
                                        /\ p \in DOMAIN m.data.entries
                                     THEN m.data.entries[p] ELSE m.t.result[p]],
                     replaced |-> m.data.entries]], "returned")
    ELSE LET fname == FeatureOrder[m.t.f]
             sid == m.t.roster[m.t.i]
             m1 == [m EXCEPT !.t.attempted = Append(@, <<sid, fname>>)]
         IN  IF fname \notin m.t.enabled THEN FeatureDone(m, "empty", FALSE)
             ELSE CASE fname = "homework" -> Ensure(m1, "api")
                    [] fname \in {"schedule", "exams"} ->
                          IF sid \notin Range(m1.students)
                          THEN FeatureDone(m1, "empty", FALSE)
                          ELSE Discover(m1, "feature")
                    [] fname = "grades" -> Discover(m1, "feature")

\* async_update lines 1309-1389: the next fetch of the loop, up to its await.
UpdFeature(m) ==
    IF m.t.i > Len(m.t.roster)
    THEN Finish([m EXCEPT !.data = [present |-> TRUE, students |-> m.t.roster,
                                    entries |-> m.t.result,
                                    replaced |-> m.data.entries]], "returned")
    ELSE LET fname == FeatureOrder[m.t.f]
             sid == m.t.roster[m.t.i]
             m1 == [m EXCEPT !.t.attempted = Append(@, <<sid, fname>>)]
         IN  IF fname \notin m.t.enabled THEN FeatureDone(m, "empty", FALSE)
             ELSE CASE fname = "homework" -> Ensure(m1, "api")
                    [] fname \in {"schedule", "exams"} ->
                          IF sid \notin Range(m1.students)
                          THEN FeatureDone(m1, "empty", FALSE)
                          ELSE Discover(m1, "feature")
                    [] fname = "grades" -> Discover(m1, "feature")

\* ------------------------------------------------------------- the server
Resp(kind) == [kind |-> kind, tok |-> NoToken, roster |-> <<>>, n |-> 0, v |-> NoBundle]

Responses(w, toks, rosters) ==
    CASE w = "salt" -> {Resp("ok"), Resp("error")}
      [] w = "login" ->
            {[Resp("jwt") EXCEPT !.tok = k, !.roster = r] : k \in toks, r \in rosters}
            \cup {[Resp("multi") EXCEPT !.n = MaxAccounts], Resp("error")}
      [] w = "index" ->
            {[Resp("html") EXCEPT !.n = n] : n \in 0 .. MaxScripts} \cup {Resp("error")}
      [] w = "script" ->
            {[Resp("hit") EXCEPT !.v = v] : v \in Versions}
            \cup {Resp("miss"), Resp("error")}
      [] w = "calls" ->
            {[Resp("ok") EXCEPT !.n = n] : n \in 0 .. MaxCourses} \cup {Resp("http_error")}
      [] w = "subjects" -> {Resp("ok"), Resp("empty")}

\* The coroutine m.t receives response r and runs up to its next await.
Resume(m, r) ==
    LET fname == IF m.t.op = "rpc" THEN "homework" ELSE FeatureOrder[m.t.f]
    IN  CASE m.t.wait = "salt" ->
               IF r.kind = "ok" THEN SendLogin(m) ELSE Raise(m)
          [] m.t.wait = "login" ->
               CASE r.kind = "jwt" ->
                      LoginReturn([m EXCEPT !.token = r.tok, !.students = r.roster])
                 [] r.kind = "multi" -> LoginReturn([m EXCEPT !.multi = r.n])
                 [] OTHER -> Raise(m)
          [] m.t.wait = "index" ->
               CASE r.kind = "error" -> Raise(m)
                 [] r.n = 0 -> DiscoverReturn(m, NoBundle)
                 [] OTHER -> SendScript(m, r.n)
          [] m.t.wait = "script" ->
               CASE r.kind = "hit" -> DiscoverReturn([m EXCEPT !.bundle = r.v], r.v)
                 [] m.t.scripts > 1 -> SendScript(m, m.t.scripts - 1)
                 [] OTHER -> DiscoverReturn(m, NoBundle)
          [] m.t.wait = "calls" ->
               CASE r.kind = "ok" /\ fname = "grades" ->
                      Subjects([m EXCEPT !.t.courses = r.n, !.t.wait = "none"])
                 [] r.kind = "ok" -> FeatureResult(m, "data")
                 [] fname \in {"homework", "schedule"} -> Raise(m)
                 [] OTHER -> FeatureResult(m, "empty")
          [] m.t.wait = "subjects" ->
               Subjects([m EXCEPT !.subj = (@ \/ r.kind = "ok"),
                                  !.t.courses = @ - 1, !.t.wait = "none"])

\* -------------------------------------------------- _api_call's response
HTTP_OK == 200
HTTP_ERROR == 500
MaxResults == 2

\* One entry of the "results" array: a JSON object or not; its "status" (None:
\* no such key); its "data" ("absent": no such key, "[]": an empty list).
ResultEntries ==
    {[dict |-> FALSE, status |-> None, data |-> "absent"]}
    \cup [dict : {TRUE}, status : {None, HTTP_OK, HTTP_ERROR},
          data : {"absent", "[]", "d1", "d2"}]

SeqsUpTo(S, n) == UNION {[1 .. k -> S] : k \in 0 .. n}

\* body: "object" (a JSON object), "array" (JSON, but no object), "text" (no
\* JSON); has_results: the object has a "results" key.
RpcResponses ==
    [status : {HTTP_OK, HTTP_ERROR}, body : {"object"}, has_results : {TRUE},
     results : SeqsUpTo(ResultEntries, MaxResults)]
    \cup [status : {HTTP_OK, HTTP_ERROR}, body : {"object", "array", "text"},
          has_results : {FALSE}, results : {<<>>}]

Return(v) == [kind |-> "return", value |-> v]
RaiseError(e) == [kind |-> "raise", value |-> e]
Pending == [kind |-> "pending", value |-> "none"]
NoResponse == [status |-> HTTP_OK, body |-> "text", has_results |-> FALSE, results |-> <<>>]

\* _api_call, lines 392-444: what it does with the response
api_call_result(resp) ==
    IF resp.status # HTTP_OK THEN RaiseError("RuntimeError")
    ELSE IF resp.body = "array" THEN RaiseError("AttributeError")
    ELSE LET results == IF resp.body = "object" /\ resp.has_results
                        THEN resp.results ELSE <<>>
         IN  IF results = <<>> THEN Return("[]")
             ELSE LET result == results[1]
                  IN  IF result.dict /\ result.status # None /\ result.status # HTTP_OK
                      THEN Return("[]")
                      ELSE IF result.dict /\ result.data # "absent"
                           THEN Return(result.data)
                           ELSE Return("body")

\* --------------------------------------------------------------- the actions
Begin(t, op) == [Machine(t) EXCEPT !.t = [IdleTask EXCEPT !.op = op, !.i = 1, !.f = 1]]

\* async_update(enabled_features): called by the coordinator
async_update(t, enabled) ==
    /\ tasks[t].op = "idle"
    /\ Store(t, UpdPre1([Begin(t, "update") EXCEPT !.t.enabled = enabled,
                                                    !.t.i = 0, !.t.f = 0]))
    /\ UNCHANGED <<cooldownVars, manualVars, hassVars, rpcVars, authVars, pureVars>>

\* _api_call, lines 361-392 (fetch_homework called on its own)
api_call(t) ==
    /\ tasks[t].op = "idle"
    /\ Store(t, Ensure(Begin(t, "rpc"), "api"))
    /\ UNCHANGED <<cooldownVars, manualVars, hassVars, rpcVars, authVars, pureVars>>

\* async_discover_bundle_version, lines 100-104
async_discover_bundle_version(t) ==
    /\ tasks[t].op = "idle"
    /\ Store(t, Discover(Begin(t, "discover"), "discover"))
    /\ UNCHANGED <<cooldownVars, manualVars, hassVars, rpcVars, authVars, pureVars>>

\* async_login, lines 168-171, called on its own
async_login(t) ==
    /\ tasks[t].op = "idle"
    /\ Store(t, SendSalt(Begin(t, "login"), "login"))
    /\ UNCHANGED <<cooldownVars, manualVars, hassVars, rpcVars, authVars, pureVars>>

\* A response arrives and the coroutine runs on.
Respond(t, toks, rosters) ==
    /\ tasks[t].wait # "none"
    /\ \E r \in Responses(tasks[t].wait, toks, rosters) :
           Store(t, Resume([Machine(t) EXCEPT !.t.auth = Unsent], r))
    /\ UNCHANGED <<cooldownVars, manualVars, hassVars, rpcVars, authVars, pureVars>>

\* clear_auth_cache, lines 87-90 (the clear_cache service)
clear_auth_cache ==
    /\ token' = NoToken
    /\ bundle_version' = NoBundle
    /\ loginSinceClear' = FALSE
    /\ discoverySinceClear' = FALSE
    /\ tasks' = [t \in DOMAIN tasks |->
                     IF tasks[t].op = "idle" THEN tasks[t]
                     ELSE [tasks[t] EXCEPT !.stale = TRUE]]
    /\ UNCHANGED <<students, multiple_accounts, subjects_cache, data, subjectRequests>>
    /\ UNCHANGED <<cooldownVars, manualVars, hassVars, rpcVars, authVars, pureVars>>

\* the response arrives at _api_call
ApiCallResponse ==
    /\ returned = Pending
    /\ returned' = api_call_result(response)
    /\ UNCHANGED <<response, cooldownVars, manualVars, hassVars, clientVars, authVars, pureVars>>

InitRpcVars(responses) ==
    /\ response \in responses
    /\ returned = Pending

\* SchulmanagerClient.__init__, lines 51-58, with the coroutines `ids`
InitClientVars(ids) ==
    /\ token = NoToken
    /\ bundle_version = NoBundle
    /\ students = <<>>
    /\ multiple_accounts = 0
    /\ subjects_cache = FALSE
    /\ data = NoData
    /\ tasks = [t \in ids |-> IdleTask]
    /\ loginSinceClear = FALSE
    /\ discoverySinceClear = FALSE
    /\ subjectRequests = "none"

\* ------------------------------------------ async_login, response by response
InstitutionIds == {1, 2}
LoginRosters == {<<>>, <<"s1">>}

\* An HTTP exchange of the login sequence.  body: "json" (the salt, any JSON
\* value), "object" (a JSON object), "text" (no JSON), "neterr" (the request
\* failed in the network); accounts: the length of "multipleAccounts" (0: no
\* such key); jwt: "jwt" (NoToken: no such key); institutionId and roster:
\* user.institutionId and the students of user.associatedParents.
NoHttp ==
    [status |-> HTTP_OK, body |-> "none", accounts |-> 0, jwt |-> NoToken,
     institutionId |-> None, roster |-> <<>>]
Http(status, body) == [NoHttp EXCEPT !.status = status, !.body = body]

SaltResponses ==
    {Http(s, b) : s \in {HTTP_OK, HTTP_ERROR}, b \in {"json", "text"}}
    \cup {Http(HTTP_OK, "neterr")}

LoginResponses ==
    [status : {HTTP_OK, HTTP_ERROR}, body : {"object"}, accounts : 0 .. MaxAccounts,
     jwt : {NoToken} \cup Tokens, institutionId : {None} \cup InstitutionIds,
     roster : LoginRosters]
    \cup {Http(s, "text") : s \in {HTTP_OK, HTTP_ERROR}}
    \cup {Http(HTTP_OK, "neterr")}

\* The exception classes the client lets out.
Failure(class, message) == [kind |-> "raise", class |-> class, message |-> message]
Success(what) == [kind |-> "return", class |-> "none", message |-> what]

\* _fetch_salt, lines 145-158
fetch_salt_result(r) ==
    IF r.body = "neterr" THEN Failure("ClientError", "none")
    ELSE IF r.body = "text" THEN Failure("RuntimeError", "get_salt_failed")
    ELSE Success("salt")

\* _pbkdf2_hash_hex, line 163: password.encode("latin-1", errors="strict")
pbkdf2_hash_hex_result(latin1) ==
    IF latin1 THEN Success("hash") ELSE Failure("UnicodeEncodeError", "none")

\* A variant of the login response handling that looks for the jwt first.
login_result_jwt_first(r) ==
    IF r.body = "neterr" THEN Failure("ClientError", "none")
    ELSE IF r.body = "text" THEN Failure("RuntimeError", "login_failed")
    ELSE IF r.status # HTTP_OK THEN Failure("RuntimeError", "login_failed")
    ELSE IF r.jwt # NoToken THEN Success("jwt")
    ELSE IF r.accounts > 0 THEN Success("multipleAccounts")
    ELSE Failure("RuntimeError", "login_failed:no_jwt")

\* async_login, lines 197-229: how the login response is classified
login_result(r) ==
    IF r.body = "neterr" THEN Failure("ClientError", "none")
    ELSE IF r.body = "text" THEN Failure("RuntimeError", "login_failed")
    ELSE IF r.status # HTTP_OK THEN Failure("RuntimeError", "login_failed")
    ELSE IF r.accounts > 0 THEN Success("multipleAccounts")
    ELSE IF r.jwt = NoToken THEN Failure("RuntimeError", "login_failed:no_jwt")
    ELSE Success("jwt")

\* The login coroutine at rest.  before: the client's fields when the attempt
\* began; nSalt, nLogin: requests sent by the attempt; resp: the response it
\* received last.
IdleAttempt(latin1) ==
    [pc |-> "idle", latin1 |-> latin1, outcome |-> Success("none"),
     nSalt |-> 0, nLogin |-> 0, resp |-> NoHttp,
     before |-> [token |-> NoToken, students |-> <<>>, institution_id |-> None,
                 multiple_accounts |-> 0]]

AttemptEnds(r, how) ==
    attempt' = [attempt EXCEPT !.pc = "idle", !.outcome = how, !.resp = r]

\* async_login is called: line 171 posts the salt request
LoginCall ==
    /\ attempt.pc = "idle"
    /\ attempt' = [IdleAttempt(attempt.latin1) EXCEPT
                      !.pc = "salt", !.nSalt = 1,
                      !.before = [token |-> token, students |-> students,
                                  institution_id |-> institution_id,
                                  multiple_accounts |-> multiple_accounts]]
    /\ UNCHANGED <<institution_id, pureVars, cooldownVars, manualVars, hassVars, clientVars, rpcVars>>

\* the salt response arrives: lines 146-158, 172 (hash), 197 (login request)
FetchSaltReturns(r) ==
    /\ attempt.pc = "salt"
    /\ IF fetch_salt_result(r).kind = "raise"
       THEN AttemptEnds(r, fetch_salt_result(r))
       ELSE IF pbkdf2_hash_hex_result(attempt.latin1).kind = "raise"
       THEN AttemptEnds(r, pbkdf2_hash_hex_result(attempt.latin1))
       ELSE attempt' = [attempt EXCEPT !.pc = "login", !.nLogin = @ + 1, !.resp = r]
    /\ UNCHANGED <<institution_id, pureVars, cooldownVars, manualVars, hassVars, clientVars, rpcVars>>

\* A variant of the login response handling that stores before it checks.
LoginReturns_store_first(r) ==
    /\ attempt.pc = "login"
    /\ AttemptEnds(r, login_result(r))
    /\ token' = IF r.jwt # NoToken THEN r.jwt ELSE token
    /\ institution_id' = IF institution_id = None THEN r.institutionId ELSE institution_id
    /\ students' = IF r.body = "object" THEN r.roster ELSE students
    /\ multiple_accounts' = IF login_result(r).message = "multipleAccounts"
                            THEN r.accounts ELSE multiple_accounts
    /\ UNCHANGED <<bundle_version, subjects_cache, data, tasks, loginSinceClear,
                   discoverySinceClear, subjectRequests>>
    /\ UNCHANGED <<pureVars, cooldownVars, manualVars, hassVars, rpcVars>>

\* the login response arrives: lines 198-254
LoginReturns(r) ==
    /\ attempt.pc = "login"
    /\ AttemptEnds(r, login_result(r))
    /\ IF login_result(r).message = "jwt"
       THEN /\ token' = r.jwt
            /\ institution_id' = IF institution_id = None THEN r.institutionId
                                 ELSE institution_id
            /\ students' = r.roster
            /\ UNCHANGED multiple_accounts
       ELSE IF login_result(r).message = "multipleAccounts"
       THEN /\ multiple_accounts' = r.accounts
            /\ UNCHANGED <<token, institution_id, students>>
       ELSE UNCHANGED <<token, institution_id, students, multiple_accounts>>
    /\ UNCHANGED <<bundle_version, subjects_cache, data, tasks, loginSinceClear,
                   discoverySinceClear, subjectRequests>>
    /\ UNCHANGED <<pureVars, cooldownVars, manualVars, hassVars, rpcVars>>

\* SchulmanagerClient.__init__, lines 49-50, 57: password and institution_id
InitAuthVars(ids, encodable) ==
    /\ institution_id \in ids
    /\ attempt \in {[IdleAttempt(l) EXCEPT !.before.institution_id = institution_id] :
                    l \in encodable}

\* the argument and the result of a function of the client run on its own
NoArg == "none"
InitPureVars(args) ==
    /\ arg \in args
    /\ res = Pending

InitIdleRest == InitAuthVars({None}, {TRUE}) /\ InitPureVars({NoArg})

\* ------------------------------- _discover_bundle_version, script by script
\* What the three patterns find in the text of one candidate script: the
\* literal pattern, the identifier pattern with its definition, the proximity
\* pattern (NoBundle: no match); fetched: the GET of the script succeeded.
\* Wherever the literal pattern matches, the proximity pattern matches too.
ScriptTexts ==
    {s \in [fetched : {TRUE}, literal : {NoBundle, "aaaaaaaaa1", "aaaaaaaaa2"},
            ident : {NoBundle, "bbbbbbbbb1"}, near : {NoBundle, "ccccccccc1", "ccccccccc2"}] :
        s.literal # NoBundle => s.near # NoBundle}
    \cup {[fetched |-> FALSE, literal |-> NoBundle, ident |-> NoBundle, near |-> NoBundle]}
ScriptLists == SeqsUpTo(ScriptTexts, MaxScripts)

\* A variant of the probe that tries the proximity pattern first.
script_probe_near_first(s) ==
    IF ~s.fetched THEN NoBundle
    ELSE IF s.near # NoBundle THEN s.near
    ELSE IF s.ident # NoBundle THEN s.ident
    ELSE s.literal

\* lines 306-354: the probe of one script
script_probe(s) ==
    IF ~s.fetched THEN NoBundle
    ELSE IF s.literal # NoBundle THEN s.literal
    ELSE IF s.ident # NoBundle THEN s.ident
    ELSE s.near

\* lines 303-359: the loop over the scripts, from script k on
RECURSIVE probe_scripts(_, _)
probe_scripts(scripts, k) ==
    IF k > Len(scripts) THEN NoBundle
    ELSE IF script_probe(scripts[k]) # NoBundle THEN script_probe(scripts[k])
    ELSE probe_scripts(scripts, k + 1)

\* the loop runs on the scripts of arg
DiscoverRuns ==
    /\ res = Pending
    /\ res' = Return(probe_scripts(arg, 1))
    /\ UNCHANGED <<arg, cooldownVars, manualVars, hassVars, clientVars, rpcVars, authVars>>

\* ------------------------------------ calendar.py, sensor.py: one day's lessons
\* One lesson of a day's list: its type, its classHour.number (None: the
\* lesson carries no hour and no id), and whether its originalLessons name a
\* subject, a teacher or a room (kept for cancelled lessons only).
MaxLessons == 3
Hours == {1, 2}
LessonTypes == {"regularLesson", "substitution", "cancelledLesson"}
Lessons ==
    {l \in [type : LessonTypes, hour : Hours \cup {None}, original : BOOLEAN] :
        l.original => l.type = "cancelledLesson"}
DayLists == SeqsUpTo(Lessons, MaxLessons)
\* the calendar's options: highlight, hide_cancelled_no_highlight
ScheduleInputs == [lessons : DayLists, highlight : BOOLEAN, hide : BOOLEAN]

Lowest(S) == CHOOSE x \in S : \A y \in S : x <= y
IsCancelled(lessons, i) == lessons[i].type = "cancelledLesson"
\* One displayed unit: the lesson shown as primary (0: none, the row carries the
\* cancellation label only) and the cancelled lesson it refers to (0: none).
Unit(primary, original) == [primary |-> primary, original |-> original]

\* calendar.py 377-381: the key of the group lesson i falls into
group_key(lessons, i) ==
    IF lessons[i].hour # None THEN <<"hour", lessons[i].hour>> ELSE <<"idx", i>>

\* calendar.py 400-425: the event of the group with this key, if any
group_events(lessons, key, highlight, hide) ==
    LET items == {i \in DOMAIN lessons : group_key(lessons, i) = key}
        cancelled == {i \in items : IsCancelled(lessons, i)}
        active == items \ cancelled
    IN  IF active # {}
        THEN <<Unit(Lowest(active),
                    IF cancelled # {} /\ lessons[Lowest(cancelled)].original
                    THEN Lowest(cancelled) ELSE 0)>>
        ELSE IF ~highlight /\ hide THEN <<>>
        ELSE <<Unit(Lowest(cancelled), 0)>>

\* calendar.py 366-427: ScheduleCalendar._iter_events_for_day, the groups in
\* the order of their first lesson, from lesson i on
RECURSIVE iter_events_for_day(_, _, _, _)
iter_events_for_day(lessons, i, highlight, hide) ==
    IF i > Len(lessons) THEN <<>>
    ELSE (IF \E j \in 1 .. i - 1 : group_key(lessons, j) = group_key(lessons, i)
          THEN <<>>
          ELSE group_events(lessons, group_key(lessons, i), highlight, hide))
         \o iter_events_for_day(lessons, i + 1, highlight, hide)

\* sensor.py 219-227: get_hour_number
get_hour_number(lesson) == IF lesson.hour # None THEN lesson.hour ELSE 999

\* sensor.py 229: sorted(items, key=get_hour_number), a stable sort; the
\* positions of the lessons in sorted order
RECURSIVE sorted_positions(_, _)
sorted_positions(lessons, rest) ==
    IF rest = {} THEN <<>>
    ELSE LET i == CHOOSE i \in rest : \A j \in rest :
                    \/ get_hour_number(lessons[i]) < get_hour_number(lessons[j])
                    \/ /\ get_hour_number(lessons[i]) = get_hour_number(lessons[j])
                       /\ i <= j
         IN  <<i>> \o sorted_positions(lessons, rest \ {i})
items_sorted(lessons) == sorted_positions(lessons, DOMAIN lessons)

\* sensor.py 367-403: the hour key of a lesson (the date is that of the day)
hour_key(lesson, blocks) ==
    IF lesson.hour # None THEN <<"hour", lesson.hour>> ELSE <<"fallback", Len(blocks)>>

\* sensor.py 366-426: _acquire_block, the position of the block the lesson
\* goes to (one past the end: a new block)
acquire_block(lessons, blocks, i) ==
    LET free == {b \in DOMAIN blocks :
                    /\ blocks[b].key = hour_key(lessons[i], blocks)
                    /\ IF IsCancelled(lessons, i) THEN blocks[b].secondary = 0
                       ELSE blocks[b].primary = 0}
    IN  IF free # {} THEN Lowest(free) ELSE Len(blocks) + 1

\* sensor.py 428-473: the loop over the sorted lessons, from position k on
RECURSIVE build_blocks(_, _, _)
build_blocks(lessons, k, blocks) ==
    IF k > Len(lessons) THEN blocks
    ELSE LET i == items_sorted(lessons)[k]
             b == acquire_block(lessons, blocks, i)
             grown == IF b > Len(blocks)
                      THEN Append(blocks, [key |-> hour_key(lessons[i], blocks),
                                           primary |-> 0, secondary |-> 0])
                      ELSE blocks
         IN  build_blocks(lessons, k + 1,
                 IF IsCancelled(lessons, i) THEN [grown EXCEPT ![b].secondary = i]
                 ELSE [grown EXCEPT ![b].primary = i])

\* sensor.py 486-544: two table rows per block, the primary row and the
\* struck-through secondary row
block_rows(blocks) == [b \in DOMAIN blocks |-> Unit(blocks[b].primary, blocks[b].secondary)]

\* ScheduleCalendar._iter_events_for_day runs on the day's lessons of arg
CalendarRuns ==
    /\ res.kind = "pending"
    /\ res' = Return([consumer |-> "calendar",
                      units |-> iter_events_for_day(arg.lessons, 1, arg.highlight, arg.hide)])
    /\ UNCHANGED <<arg, cooldownVars, manualVars, hassVars, clientVars, rpcVars, authVars>>

\* ScheduleSensor.extra_state_attributes runs on the day's lessons of arg (a
\* school day)
SensorRuns ==
    /\ res.kind = "pending"
    /\ res' = Return([consumer |-> "sensor",
                      units |-> block_rows(build_blocks(arg.lessons, 1, <<>>))])
    /\ UNCHANGED <<arg, cooldownVars, manualVars, hassVars, clientVars, rpcVars, authVars>>

\* --------------------------------------------------- _parse_german_grade
\* A grade value as the portal sends it: nothing, a number, or a text over a
\* small alphabet of digits, the decimal point, the tendency signs, the
\* separator, a letter and a blank.
MaxGradeLen == 4
Digits == {"0", "3"}
GradeChars == Digits \cup {".", "+", "-", "~", "x", " "}
GradeNumbers == {0, 3, 7}
GradeValue(kind, num, chars) == [kind |-> kind, num |-> num, chars |-> chars]
GradeValues ==
    {GradeValue("none", 0, <<>>)}
    \cup {GradeValue("num", n, <<>>) : n \in GradeNumbers}
    \cup {GradeValue("str", 0, t) : t \in SeqsUpTo(GradeChars, MaxGradeLen)}

\* A float: whole + frac / 10^places, frac without trailing zeros; NoGrade is
\* Python's None.
NoGrade == [defined |-> FALSE, neg |-> FALSE, whole |-> 0, frac |-> 0, places |-> 0]
RECURSIVE Float(_, _, _, _)
Float(neg, whole, frac, places) ==
    IF places > 0 /\ frac % 10 = 0 THEN Float(neg, whole, frac \div 10, places - 1)
    ELSE [defined |-> TRUE, neg |-> neg /\ (whole # 0 \/ frac # 0),
          whole |-> whole, frac |-> frac, places |-> places]

DigitValue(c) == IF c = "3" THEN 3 ELSE 0
RECURSIVE to_nat(_)
to_nat(t) ==
    IF t = <<>> THEN 0
    ELSE to_nat(SubSeq(t, 1, Len(t) - 1)) * 10 + DigitValue(t[Len(t)])

\* str.strip()
RECURSIVE lstrip(_)
lstrip(t) == IF t # <<>> /\ Head(t) = " " THEN lstrip(Tail(t)) ELSE t
RECURSIVE rstrip(_)
rstrip(t) == IF t # <<>> /\ t[Len(t)] = " " THEN rstrip(SubSeq(t, 1, Len(t) - 1)) ELSE t
strip(t) == rstrip(lstrip(t))

\* Python's float() on a text: blanks around it are dropped, one sign may
\* lead, then digits with at most one decimal point and at least one digit;
\* anything else is a ValueError (NoGrade here, as every caller catches it).
float_of_text(t) ==
    LET u == strip(t)
        signed == u # <<>> /\ Head(u) \in {"+", "-"}
        body == IF signed THEN Tail(u) ELSE u
        points == {k \in DOMAIN body : body[k] = "."}
        point == IF points = {} THEN Len(body) + 1 ELSE Lowest(points)
    IN  IF \/ \E k \in DOMAIN body : body[k] \notin Digits \cup {"."}
           \/ Cardinality(points) > 1
           \/ Len(body) = Cardinality(points)
        THEN NoGrade
        ELSE Float(signed /\ Head(u) = "-",
                   to_nat(SubSeq(body, 1, point - 1)),
                   to_nat(SubSeq(body, point + 1, Len(body))),
                   Max(Len(body) - point, 0))

\* grade_str.split("~")[1]: the text between the first separator and the next
split_second(t) ==
    LET seps == {k \in DOMAIN t : t[k] = "~"}
        first == Lowest(seps)
        later == {k \in seps : k > first}
    IN  SubSeq(t, first + 1, IF later = {} THEN Len(t) ELSE Lowest(later) - 1)

\* api_client.py 1022-1054: _parse_german_grade
parse_german_grade(v) ==
    IF v.kind = "none" \/ (v.kind = "str" /\ v.chars = <<>>) THEN NoGrade
    ELSE IF v.kind = "num" THEN Float(FALSE, v.num, 0, 0)
    ELSE LET grade_str == strip(v.chars)
         IN  IF grade_str = <<>> THEN NoGrade
             ELSE IF \E k \in DOMAIN grade_str : grade_str[k] = "~"
             THEN float_of_text(split_second(grade_str))
             ELSE IF grade_str[Len(grade_str)] \in {"+", "-"}
             THEN float_of_text(SubSeq(grade_str, 1, Len(grade_str) - 1))
             ELSE float_of_text(grade_str)

\* _parse_german_grade runs on the grade value of arg
ParseGradeRuns ==
    /\ res.kind = "pending"
    /\ res' = Return(parse_german_grade(arg))
    /\ UNCHANGED <<arg, cooldownVars, manualVars, hassVars, clientVars, rpcVars, authVars>>

\* sensor.py 848-894: GradeSensor._parse_german_grade
sensor_parse_german_grade(v) ==
    IF v.kind = "none" \/ (v.kind = "str" /\ v.chars = <<>>) THEN NoGrade
    ELSE IF v.kind = "num" THEN Float(FALSE, v.num, 0, 0)
    ELSE LET grade_str == strip(v.chars)
         IN  IF grade_str = <<>> THEN NoGrade
             ELSE IF \E k \in DOMAIN grade_str : grade_str[k] = "~"
             THEN LET grade_part == split_second(grade_str)
                  IN  IF grade_part # <<>> /\ grade_part[Len(grade_part)] \in {"+", "-"}
                      THEN float_of_text(SubSeq(grade_part, 1, Len(grade_part) - 1))
                      ELSE float_of_text(grade_part)
             ELSE IF grade_str[Len(grade_str)] \in {"+", "-"}
             THEN float_of_text(SubSeq(grade_str, 1, Len(grade_str) - 1))
             ELSE float_of_text(grade_str)

\* the client's and the sensor's parser run on the same grade value
BothParsersRun ==
    /\ res.kind = "pending"
    /\ res' = Return([client |-> parse_german_grade(arg),
                      sensor |-> sensor_parse_german_grade(arg)])
    /\ UNCHANGED <<arg, cooldownVars, manualVars, hassVars, clientVars, rpcVars, authVars>>

\* ----------------------------- _process_grades_data, _calculate_subject_average
\* One grading event of the response: the subject of its course (0: the course
\* is unknown or has no subjectId), the name of its grade type, and the value
\* of its one grade.
MaxEvents == 3
SubjectIds == {1, 2}
GradeTypeNames == {"Klassenarbeit", "Sonstige"}
EventGrades ==
    {GradeValue("str", 0, <<>>), GradeValue("num", 0, <<>>), GradeValue("num", 2, <<>>),
     GradeValue("num", 7, <<>>), GradeValue("str", 0, <<"3", ".", "3">>),
     GradeValue("str", 0, <<"x">>)}
\* the first subject with every grade under every type, the second with two
\* grades under one type
GradingEvents ==
    {[subject |-> 0, type |-> "Sonstige", value |-> GradeValue("num", 2, <<>>)]}
    \cup [subject : {1}, type : GradeTypeNames, value : EventGrades]
    \cup [subject : {2}, type : {"Klassenarbeit"},
          value : {GradeValue("num", 2, <<>>), GradeValue("str", 0, <<"3", ".", "3">>)}]
EventLists == SeqsUpTo(GradingEvents, MaxEvents)

\* A float with at most two decimals, in hundredths.
Cents(f) == (IF f.neg THEN 0 - 1 ELSE 1) * (f.whole * 100 + (f.frac * 100) \div (10 ^ f.places))
RECURSIVE SumSeq(_)
SumSeq(q) == IF q = <<>> THEN 0 ELSE Head(q) + SumSeq(Tail(q))
\* round(num / den, 2) in hundredths: the nearest hundredth; on a tie the
\* result depends on the binary value of the quotient, either neighbour.
round2(num, den) ==
    {q \in {num \div den, num \div den + 1} :
        2 * (IF q * den >= num THEN q * den - num ELSE num - q * den) <= den}

\* Python's truth value of a grade value: line 1224, `if not grade_value`
Falsy(v) ==
    \/ v.kind = "none"
    \/ v.kind = "str" /\ v.chars = <<>>
    \/ v.kind = "num" /\ v.num = 0

\* lines 1242-1253: the entry stored for a grade
grade_entry(v) == [value |-> parse_german_grade(v), original_value |-> v]

\* lines 1199-1258: the entries of subject s under grade type c, in event order
EntryKept(e, s, c) == e.subject = s /\ e.type = c /\ ~Falsy(e.value)
category_entries(events, s, c) ==
    LET Kept(e) == EntryKept(e, s, c)
        kept == SelectSeq(events, Kept)
    IN  [k \in DOMAIN kept |-> grade_entry(kept[k].value)]
subject_grades(events, s) ==
    [c \in {c \in GradeTypeNames : category_entries(events, s, c) # <<>>} |->
        category_entries(events, s, c)]

\* A variant that averages every entry that parses, whatever its range.
valid_grades_any_range(entries) ==
    LET Valid(entry) == entry.value.defined
        valid == SelectSeq(entries, Valid)
    IN  [k \in DOMAIN valid |-> Cents(valid[k].value)]

\* lines 1068-1076: the grades of one category that enter the average, in
\* hundredths; a stored float parses to itself, a stored raw value is parsed
valid_grades(entries) ==
    LET Valid(entry) ==
            LET numeric_grade == IF entry.value.defined THEN entry.value
                                 ELSE parse_german_grade(entry.original_value)
            IN  /\ numeric_grade.defined
                /\ 100 <= Cents(numeric_grade) /\ Cents(numeric_grade) <= 600
        valid == SelectSeq(entries, Valid)
    IN  [k \in DOMAIN valid |-> Cents(valid[k].value)]
RECURSIVE all_grades(_, _)
all_grades(grade_categories, cats) ==
    IF cats = {} THEN <<>>
    ELSE LET c == CHOOSE c \in cats : TRUE
         IN  valid_grades(grade_categories[c]) \o all_grades(grade_categories, cats \ {c})

\* lines 1056-1083: _calculate_subject_average, the values it can return
calculate_subject_average(grade_categories) ==
    LET grades == all_grades(grade_categories, DOMAIN grade_categories)
    IN  IF grades = <<>> THEN {None} ELSE round2(SumSeq(grades), Len(grades))

\* lines 1260-1281: the payloads _process_grades_data can return
process_grades_data(events) ==
    LET ids == {e.subject : e \in Range(events)} \ {0}
        averages == {a \in [ids -> UNION {calculate_subject_average(subject_grades(events, s))
                                          : s \in ids}] :
                        \A s \in ids : a[s] \in calculate_subject_average(subject_grades(events, s))}
        graded(a) == {s \in ids : a[s] # None}
        RECURSIVE total(_, _)
        total(a, S) == IF S = {} THEN 0
                       ELSE LET x == CHOOSE x \in S : TRUE IN a[x] + total(a, S \ {x})
    IN  UNION {
          {[subjects |-> [s \in ids |-> [grades |-> subject_grades(events, s),
                                         average |-> a[s]]],
            overall_average |-> o,
            total_subjects |-> Cardinality(ids),
            subjects_with_grades |-> Cardinality(graded(a))]
           : o \in IF graded(a) = {} THEN {None}
                   ELSE round2(total(a, graded(a)), Cardinality(graded(a)))}
          : a \in averages}

\* _process_grades_data runs on the grading events of arg
ProcessGradesRuns ==
    /\ res.kind = "pending"
    /\ \E payload \in process_grades_data(arg) : res' = Return(payload)
    /\ UNCHANGED <<arg, cooldownVars, manualVars, hassVars, clientVars, rpcVars, authVars>>

\* ------------------- _parse_batch_schedule_response, _generate_changes_summary
\* One lesson of the response: the day its date string names, counted from the
\* reference date (0: today, 1: tomorrow, 2: a later day, None: no date
\* string), and its type tag (NoType: the lesson has none).
MaxDatedLessons == 3
NoType == ""
DayOffsets == {0, 1, 2}
ChangeLessonTypes == {"regularLesson", "cancelledLesson", "substitution", NoType}
DatedLessons == [day : DayOffsets \cup {None}, type : ChangeLessonTypes]
\* One result of the batch response (the request carries one call): its status
\* and its data, a list of lessons.
ScheduleResults == [status : {HTTP_OK, HTTP_ERROR}, data : SeqsUpTo(DatedLessons, MaxDatedLessons)]
ScheduleResponses == SeqsUpTo({r \in ScheduleResults : r.status = HTTP_ERROR => r.data = <<>>}, 1)

\* line 785-794, 802: change_types.get(lesson_type, lesson_type)
change_type_label(lesson_type) ==
    IF lesson_type = "substitution" THEN "Vertretung"
    ELSE IF lesson_type = "cancelledLesson" THEN "Entfall"
    ELSE lesson_type

\* A variant that takes a lesson without a type tag for a regular lesson.
detect_lesson_change_default_regular(lesson, k) ==
    IF lesson.type \notin {"regularLesson", NoType}
    THEN <<[type |-> change_type_label(lesson.type), day |-> lesson.day, lesson |-> k]>>
    ELSE <<>>

\* lines 779-837: _detect_lesson_change, for lesson k of the data: the change
\* record, or nothing
detect_lesson_change(lesson, k) ==
    IF lesson.type # "regularLesson"
    THEN <<[type |-> change_type_label(lesson.type), day |-> lesson.day, lesson |-> k]>>
    ELSE <<>>

\* lines 671-701: the changes of the lessons of the given day, from lesson k on
RECURSIVE day_changes(_, _, _)
day_changes(lessons, day, k) ==
    IF k > Len(lessons) THEN <<>>
    ELSE (IF lessons[k].day = day THEN detect_lesson_change(lessons[k], k) ELSE <<>>)
         \o day_changes(lessons, day, k + 1)

\* lines 664-667: the lessons of all results with status 200, in order
RECURSIVE response_lessons(_)
response_lessons(results) ==
    IF results = <<>> THEN <<>>
    ELSE (IF Head(results).status = HTTP_OK THEN Head(results).data ELSE <<>>)
         \o response_lessons(Tail(results))

\* The parts of the summary text: the fixed sentence, the heading of a day
\* with its count and count word, one line per change.
FixedSummary == <<[part |-> "Keine Stundenplanaenderungen fuer heute und morgen",
                   count |-> 0, word |-> ""]>>
\* lines 846-884, 886-924: the heading and the lines of one day
day_summary(name, changes) ==
    IF changes = <<>> THEN <<>>
    ELSE <<[part |-> name, count |-> Len(changes),
            word |-> IF Len(changes) = 1 THEN "Aenderung" ELSE "Aenderungen"]>>
         \o [k \in DOMAIN changes |-> [part |-> "Stunde", count |-> 0, word |-> changes[k].type]]

\* lines 839-926: _generate_changes_summary
generate_changes_summary(today_changes, tomorrow_changes) ==
    IF today_changes = <<>> /\ tomorrow_changes = <<>> THEN FixedSummary
    ELSE day_summary("Heute", today_changes) \o day_summary("Morgen", tomorrow_changes)

\* lines 650-712: _parse_batch_schedule_response, the changes of the payload
parse_batch_schedule_response(response_data) ==
    LET lessons == response_lessons(response_data)
        changes_today == day_changes(lessons, 0, 1)
        changes_tomorrow == day_changes(lessons, 1, 1)
    IN  [today |-> changes_today, tomorrow |-> changes_tomorrow,
         summary |-> generate_changes_summary(changes_today, changes_tomorrow)]

\* _parse_batch_schedule_response runs on the response of arg
ParseScheduleRuns ==
    /\ res.kind = "pending"
    /\ res' = Return(parse_batch_schedule_response(arg))
    /\ UNCHANGED <<arg, cooldownVars, manualVars, hassVars, clientVars, rpcVars, authVars>>

\* ------------------------------------ async_login, lines 229-254: the roster
\* One associated-parent record of the login response: the id of its student
\* (None: the record has no student or the student no id) and the student's
\* first and last name ("": none).
MaxParents == 2
StudentIds == {7, 8}
ParentRecords ==
    [id : {None}, firstname : {"", "Ann"}, lastname : {"", "Bo"}]
    \cup [id : StudentIds, firstname : {"", "Ann"}, lastname : {"", "Bo"}]
ParentLists == SeqsUpTo(ParentRecords, MaxParents)

\* lines 246-249: f"{firstname} {lastname}".strip() or the fallback name
student_name(st) ==
    IF st.firstname = "" /\ st.lastname = "" THEN "Schueler"
    ELSE IF st.firstname = "" THEN st.lastname
    ELSE IF st.lastname = "" THEN st.firstname
    ELSE st.firstname \o " " \o st.lastname

\* lines 241-252: the students of the parent records, in order
extract_students(parents) ==
    LET HasId(q) == q.id # None
        kept == SelectSeq(parents, HasId)
    IN  [k \in DOMAIN kept |-> [id |-> ToString(kept[k].id), name |-> student_name(kept[k])]]

\* A variant of the login that adds the students to the roster it has.
LoginExtracts_append(tok, parents) ==
    /\ token' = tok
    /\ students' = students \o extract_students(parents)
    /\ arg' = parents
    /\ UNCHANGED <<res, bundle_version, multiple_accounts, subjects_cache, data, tasks,
                   loginSinceClear, discoverySinceClear,
                   subjectRequests>>
    /\ UNCHANGED <<cooldownVars, manualVars, hassVars, rpcVars, authVars>>

\* lines 229-254: a login response with a jwt and these associated parents
\* arrives (arg keeps the parents of the last such response)
LoginExtracts(tok, parents) ==
    /\ token' = tok
    /\ students' = extract_students(parents)
    /\ arg' = parents
    /\ UNCHANGED <<res, bundle_version, multiple_accounts, subjects_cache, data, tasks,
                   loginSinceClear, discoverySinceClear,
                   subjectRequests>>
    /\ UNCHANGED <<cooldownVars, manualVars, hassVars, rpcVars, authVars>>

\* ------------------------------ coordinator.py: events for new homework, grades
MaxItems == 2
MaxGradeEntries == 1
NoKey == ""
HomeworkNew == "schulmanager_homework_new"
GradeNew == "schulmanager_grade_new"

\* Homework items as fetch_homework returns them: one with every field, one
\* whose date is a blank.
HomeworkItems ==
    { [date |-> "2025-01-10", subject |-> "Mathe", homework |-> "S. 12"],
      [date |-> " ", subject |-> "Mathe", homework |-> "S. 12"] }
GradeEntries ==
    { [original_value |-> "2+", date |-> "2025-01-10", topic |-> "Test"],
      [original_value |-> "3", date |-> "2025-01-10", topic |-> "Test"] }
\* the grades of one student: subjects in dict order, each with its categories
GradesOf(entries) ==
    [subjects |-> << [subject_id |-> "12", name |-> "Mathe",
                      grades |-> << [category |-> "Klassenarbeit", list |-> entries] >>] >>]
\* What client.async_update returns: the roster and, keyed by the roster's
\* ids, each student's homework and grades (api_client.py 1300-1389).
UpdateResults ==
    { [students |-> roster,
       homework |-> [sid \in {st.id : st \in Range(roster)} |-> hw],
       grades |-> [sid \in {st.id : st \in Range(roster)} |-> GradesOf(gr)]] :
         roster \in SeqsUpTo({[id |-> "7", name |-> "Ann Bo"]}, 1),
         hw \in SeqsUpTo(HomeworkItems, MaxItems),
         gr \in SeqsUpTo(GradeEntries, MaxGradeEntries) }

\* str.strip() on the texts above
strip_text(s) == IF s = " " THEN "" ELSE s

\* SchulmanagerCoordinator._homework_key
homework_key(sid, item) ==
    LET date == strip_text(item.date)
        subject == strip_text(item.subject)
        hw == strip_text(item.homework)
    IN  IF ~(date # "" /\ (subject # "" \/ hw # ""))
        THEN NoKey
        ELSE sid \o ":" \o date \o ":" \o subject \o ":" \o hw

\* SchulmanagerCoordinator._iter_grade_keys: the keys in the order yielded
RECURSIVE list_grade_keys(_, _, _, _)
list_grade_keys(sid, subject_id, category, grades_list) ==
    IF grades_list = <<>> THEN <<>>
    ELSE LET g == Head(grades_list)
         IN  << sid \o ":" \o subject_id \o ":" \o category \o ":" \o g.date
                    \o ":" \o g.original_value \o ":" \o g.topic >>
             \o list_grade_keys(sid, subject_id, category, Tail(grades_list))
RECURSIVE category_grade_keys(_, _, _)
category_grade_keys(sid, subject_id, categories) ==
    IF categories = <<>> THEN <<>>
    ELSE list_grade_keys(sid, subject_id, Head(categories).category, Head(categories).list)
             \o category_grade_keys(sid, subject_id, Tail(categories))
RECURSIVE subject_grade_keys(_, _)
subject_grade_keys(sid, subjects) ==
    IF subjects = <<>> THEN <<>>
    ELSE category_grade_keys(sid, Head(subjects).subject_id, Head(subjects).grades)
             \o subject_grade_keys(sid, Tail(subjects))
iter_grade_keys(sid, grades) == subject_grade_keys(sid, grades.subjects)

\* A variant that seeds the homework keys only.
seed_seen_sets_homework_only(d) ==
    LET sids == {st.id : st \in {x \in Range(d.students) : x.id # ""}}
    IN  [seen_homework |-> seen_homework \cup
             (UNION {{homework_key(sid, item) : item \in Range(d.homework[sid])} :
                        sid \in sids} \ {NoKey}),
         seen_grades |-> seen_grades]

\* SchulmanagerCoordinator._seed_seen_sets: the two sets after seeding
seed_seen_sets(d) ==
    LET sids == {st.id : st \in {x \in Range(d.students) : x.id # ""}}
    IN  [seen_homework |-> seen_homework \cup
             (UNION {{homework_key(sid, item) : item \in Range(d.homework[sid])} :
                        sid \in sids} \ {NoKey}),
         seen_grades |-> seen_grades \cup
             UNION {Range(iter_grade_keys(sid, d.grades[sid])) : sid \in sids}]

\* _detect_and_fire_events, the homework loop for one student: acc holds the
\* seen set and the events fired so far
RECURSIVE fire_homework(_, _, _)
fire_homework(sid, items, acc) ==
    IF items = <<>> THEN acc
    ELSE LET key == homework_key(sid, Head(items))
         IN  fire_homework(sid, Tail(items),
                 IF key = NoKey \/ key \in acc.seen THEN acc
                 ELSE [seen |-> acc.seen \cup {key},
                       fired |-> Append(acc.fired,
                           [type |-> HomeworkNew, student_id |-> sid, key |-> key])])

\* _detect_and_fire_events, the grades loop for one student
RECURSIVE fire_grades(_, _, _)
fire_grades(sid, gkeys, acc) ==
    IF gkeys = <<>> THEN acc
    ELSE LET gkey == Head(gkeys)
         IN  fire_grades(sid, Tail(gkeys),
                 IF gkey \in acc.seen THEN acc
                 ELSE [seen |-> acc.seen \cup {gkey},
                       fired |-> Append(acc.fired,
                           [type |-> GradeNew, student_id |-> sid, key |-> gkey])])

\* the two outer loops, over the payload's dicts in the order they were filled
RECURSIVE detect_homework(_, _, _)
detect_homework(d, sids, acc) ==
    IF sids = <<>> THEN acc
    ELSE detect_homework(d, Tail(sids),
                         fire_homework(Head(sids), d.homework[Head(sids)], acc))
RECURSIVE detect_grades(_, _, _)
detect_grades(d, sids, acc) ==
    IF sids = <<>> THEN acc
    ELSE detect_grades(d, Tail(sids),
             fire_grades(Head(sids), iter_grade_keys(Head(sids), d.grades[Head(sids)]), acc))

\* SchulmanagerCoordinator._detect_and_fire_events
detect_and_fire_events(d) ==
    LET sids == [k \in DOMAIN d.students |-> d.students[k].id]
        hw == detect_homework(d, sids, [seen |-> seen_homework, fired |-> <<>>])
        gr == detect_grades(d, sids, [seen |-> seen_grades, fired |-> hw.fired])
    IN  [seen_homework |-> hw.seen, seen_grades |-> gr.seen, fired |-> gr.fired]

\* the keys a payload holds, by kind
homework_keys(d) ==
    UNION {{homework_key(sid, item) : item \in Range(d.homework[sid])} :
              sid \in DOMAIN d.homework} \ {NoKey}
grade_keys(d) == UNION {Range(iter_grade_keys(sid, d.grades[sid])) : sid \in DOMAIN d.grades}
FiredKeys == {<<e.type, e.key>> : e \in Range(fired_events)}

\* SchulmanagerCoordinator._async_update_data, client.async_update returning d
async_update_data(d) ==
    /\ IF initial_refresh_done
       THEN LET r == detect_and_fire_events(d)
            IN  /\ seen_homework' = r.seen_homework
                /\ seen_grades' = r.seen_grades
                /\ fired_events' = r.fired
                /\ UNCHANGED initial_refresh_done
       ELSE LET r == seed_seen_sets(d)
            IN  /\ seen_homework' = r.seen_homework
                /\ seen_grades' = r.seen_grades
                /\ fired_events' = <<>>
                /\ initial_refresh_done' = TRUE
    /\ refreshLog' =
           [outcome |-> IF initial_refresh_done THEN "later" ELSE "first",
            last_homework |-> homework_keys(d),
            last_grades |-> grade_keys(d),
            earlier_homework |-> refreshLog.earlier_homework \cup refreshLog.last_homework,
            earlier_grades |-> refreshLog.earlier_grades \cup refreshLog.last_grades,
            reappeared |-> ((homework_keys(d) \cap refreshLog.earlier_homework)
                               \ refreshLog.last_homework)
                           \cup ((grade_keys(d) \cap refreshLog.earlier_grades)
                               \ refreshLog.last_grades),
            fired_before |-> refreshLog.fired_before \cup FiredKeys]
    /\ UNCHANGED <<entryVars, todoVars, cooldownVars, manualVars, clientVars, rpcVars, authVars, pureVars>>

\* _async_update_data, client.async_update raising: the exception passes through
async_update_data_raises ==
    /\ fired_events' = <<>>
    /\ refreshLog' = [refreshLog EXCEPT !.outcome = "failed",
                                        !.fired_before = @ \cup FiredKeys]
    /\ UNCHANGED <<initial_refresh_done, seen_homework, seen_grades>>
    /\ UNCHANGED <<entryVars, todoVars, cooldownVars, manualVars, clientVars, rpcVars, authVars, pureVars>>

\* SchulmanagerCoordinator.__init__
InitEventVars ==
    /\ initial_refresh_done = FALSE
    /\ seen_homework = {}
    /\ seen_grades = {}
    /\ fired_events = <<>>
    /\ refreshLog = [outcome |-> "none",
                     last_homework |-> {}, last_grades |-> {},
                     earlier_homework |-> {}, earlier_grades |-> {},
                     reappeared |-> {}, fired_before |-> {}]

\* ------------------------------------------ __init__.py: the entry's platforms
SENSOR == "sensor"
TODO == "todo"
CALENDAR == "calendar"
BUTTON == "button"
\* entry.options: the features switched on (each defaults to True)
FeatureOptions == SUBSET Features

\* async_setup_entry, lines 223-238
platforms_to_load(options) ==
    (IF options \cap {"schedule", "exams", "grades"} # {} THEN <<SENSOR>> ELSE <<>>)
    \o (IF "homework" \in options THEN <<TODO>> ELSE <<>>)
    \o (IF options \cap {"exams", "schedule"} # {} THEN <<CALENDAR>> ELSE <<>>)
    \o <<BUTTON>>

\* async_unload_entry, lines 259-278
platforms_to_unload(options) ==
    (IF options \cap {"schedule", "exams", "grades"} # {} THEN <<SENSOR>> ELSE <<>>)
    \o (IF "homework" \in options THEN <<TODO>> ELSE <<>>)
    \o (IF options \cap {"exams", "schedule"} # {} THEN <<CALENDAR>> ELSE <<>>)
    \o <<BUTTON>>

\* async_setup_entry on entry e; ready is whether the first refresh succeeded
\* (ConfigEntryNotReady otherwise, line 164, before any platform is set up)
setup_entry(e, ready) ==
    IF ~ready THEN [e EXCEPT !.last = "not_ready"]
    ELSE [e EXCEPT !.runtime_data = TRUE,
                   !.loaded = @ \cup Range(platforms_to_load(e.options)),
                   !.last = "set_up"]

\* async_unload_entry on entry e: hass.config_entries.async_unload_platforms
\* unloads the platforms asked for; asked for one that was never set up it
\* fails, by returning False or by raising (how).
unload_entry(e, how) ==
    LET asked == Range(platforms_to_unload(e.options))
        unload_ok == asked \subseteq e.loaded
        left == [e EXCEPT !.loaded = @ \ asked]
    IN  IF unload_ok THEN [left EXCEPT !.runtime_data = FALSE, !.last = "unloaded"]
        ELSE [left EXCEPT !.last = how]

UnloadRecord(e) ==
    [happened |-> TRUE,
     asked |-> Range(platforms_to_unload(e.options)),
     loaded_before |-> e.loaded]

\* Home Assistant sets the entry up
async_setup_entry(ready) ==
    /\ config_entry.state = "not_loaded"
    /\ config_entry' = [setup_entry(config_entry, ready) EXCEPT
                     !.state = IF ready THEN "loaded" ELSE "not_loaded"]
    /\ UNCHANGED unloadLog
    /\ UNCHANGED <<eventVars, todoVars, cooldownVars, manualVars, clientVars, rpcVars, authVars, pureVars>>

\* the options flow stores new options; the update listener of a loaded entry
\* (line 248) is then due
async_update_entry(options) ==
    /\ options # config_entry.options
    /\ ~config_entry.reload_due
    /\ config_entry' = [config_entry EXCEPT !.options = options,
                              !.reload_due = (config_entry.state = "loaded")]
    /\ UNCHANGED unloadLog
    /\ UNCHANGED <<eventVars, todoVars, cooldownVars, manualVars, clientVars, rpcVars, authVars, pureVars>>

\* async_reload_entry, lines 251-254: the update listener
async_reload_entry(how, ready) ==
    /\ config_entry.reload_due
    /\ LET unloaded == unload_entry(config_entry, how)
       IN  config_entry' = [(IF unloaded.last = "raised" THEN unloaded
                      ELSE setup_entry(unloaded, ready))
                         EXCEPT !.reload_due = FALSE]
    /\ unloadLog' = UnloadRecord(config_entry)
    /\ UNCHANGED <<eventVars, todoVars, cooldownVars, manualVars, clientVars, rpcVars, authVars, pureVars>>

\* Home Assistant unloads the entry (removed, disabled or reloaded by the user)
async_unload_entry(how) ==
    /\ config_entry.state = "loaded"
    /\ ~config_entry.reload_due
    /\ LET unloaded == unload_entry(config_entry, how)
       IN  config_entry' = [unloaded EXCEPT
                         !.state = IF unloaded.last = "unloaded" THEN "not_loaded"
                                   ELSE "failed_unload"]
    /\ unloadLog' = UnloadRecord(config_entry)
    /\ UNCHANGED <<eventVars, todoVars, cooldownVars, manualVars, clientVars, rpcVars, authVars, pureVars>>

\* a new entry: every feature on, nothing set up
InitEntryVars ==
    /\ config_entry = [options |-> Features, state |-> "not_loaded", loaded |-> {},
                runtime_data |-> FALSE, reload_due |-> FALSE, last |-> "none"]
    /\ unloadLog = [happened |-> FALSE, asked |-> {}, loaded_before |-> {}]

\* ------------------------------------------------ todo.py: the homework list
NEEDS_ACTION == "needs_action"
COMPLETED == "completed"
NoStatus == "none"
TodoStudent == "7"

\* _make_uid, lines 24-30: the digest of the text put together from the
\* student id and the raw fields; the text stands for its digest
make_uid(student_id, item) ==
    student_id \o "_" \o item.date \o item.subject \o item.homework

\* _handle_coordinator_update, lines 175-188: the title of an item
todo_title(item) ==
    LET subject == strip_text(item.subject)
        homework == strip_text(item.homework)
        date == strip_text(item.date)
    IN  IF subject # "" /\ homework # ""
        THEN IF date # "" THEN "[" \o date \o "] " \o subject \o ": " \o homework
             ELSE subject \o ": " \o homework
        ELSE IF homework # "" THEN homework
        ELSE IF subject # "" THEN subject \o ": (Hausaufgabe)"
        ELSE "Hausaufgabe"

ItemUids(items) == {items[k].uid : k \in DOMAIN items}
\* existing_items, lines 162-164: the last item of the list under each uid
existing_items(items) ==
    [u \in ItemUids(items) |->
        items[CHOOSE k \in DOMAIN items :
                 /\ items[k].uid = u
                 /\ \A j \in DOMAIN items : items[j].uid = u => j <= k]]

\* _handle_coordinator_update, lines 166-224: the list built from the payload
build_todo_items(student_homework, items) ==
    [k \in DOMAIN student_homework |->
        LET uid == make_uid(TodoStudent, student_homework[k])
        IN  [summary |-> todo_title(student_homework[k]),
             uid |-> uid,
             status |-> IF uid \in ItemUids(items)
                        THEN existing_items(items)[uid].status
                        ELSE NEEDS_ACTION]]

\* HomeworkTodoList._handle_coordinator_update with the coordinator's data
\* holding student_homework for this student
handle_coordinator_update(student_homework) ==
    /\ todo_items' = build_todo_items(student_homework, todo_items)
    /\ todoLog' =
           [last |-> "coordinator_update",
            payload |-> [k \in DOMAIN student_homework |->
                            make_uid(TodoStudent, student_homework[k])],
            previous |-> ItemUids(todo_items),
            set_status |-> [u \in {make_uid(TodoStudent, student_homework[k]) :
                                      k \in DOMAIN student_homework} |->
                               IF u \in ItemUids(todo_items)
                               THEN todoLog.set_status[u] ELSE NEEDS_ACTION]]
    /\ UNCHANGED <<eventVars, entryVars, cooldownVars, manualVars, clientVars, rpcVars, authVars, pureVars>>

\* HomeworkTodoList.async_update_todo_item, lines 233-259
async_update_todo_item(uid, status) ==
    /\ LET hits == {k \in DOMAIN todo_items : todo_items[k].uid = uid}
       IN  IF uid = "" \/ todo_items = <<>> \/ hits = {}
           THEN /\ UNCHANGED todo_items
                /\ todoLog' = [todoLog EXCEPT !.last = "no_item"]
           ELSE LET i == CHOOSE k \in hits : \A j \in hits : k <= j
                    new == IF status # NoStatus THEN status ELSE todo_items[i].status
                IN  /\ todo_items' = [todo_items EXCEPT ![i].status = new]
                    /\ todoLog' = [todoLog EXCEPT !.last = "item_update",
                                                  !.set_status[uid] = new]
    /\ UNCHANGED <<eventVars, entryVars, cooldownVars, manualVars, clientVars, rpcVars, authVars, pureVars>>

\* HomeworkTodoList.__init__
InitTodoVars ==
    /\ todo_items = <<>>
    /\ todoLog = [last |-> "none", payload |-> <<>>, previous |-> {},
                  set_status |-> [u \in {} |-> NEEDS_ACTION]]
InitHassVars == InitEventVars /\ InitEntryVars /\ InitTodoVars

\* ------------------------------------------------------- CooldownManager alone
InitCooldownVars(options) ==
    /\ now = 0
    /\ last_manual_refresh = None
    /\ refresh_cooldown \in options
    /\ elapsed = None

InitManualVars ==
    /\ pc = [p \in Callers |-> "idle"]
    /\ manualResult = [raised |-> "none", remaining |-> 0]
    /\ lastDispatchAt = None

InitCooldown ==
    InitCooldownVars(CooldownOptions) /\ InitManualVars /\ InitHassVars /\ InitClientVars({}) /\ InitRpcVars({NoResponse}) /\ InitIdleRest
NextCooldown == Tick \/ RecordRefresh
SpecCooldown == InitCooldown /\ [][NextCooldown]_vars

\* ------------------------------------------- manual refresh on the coordinator
InitManual == InitCooldownVars(ManualOptions) /\ InitManualVars /\ InitHassVars /\ InitClientVars({}) /\ InitRpcVars({NoResponse}) /\ InitIdleRest
NextManual ==
    \/ ManualTick
    \/ \E p \in Callers : async_press(p)
    \/ \E p \in Callers : refresh_service(p)
    \/ \E p \in Callers : RefreshReturns(p)
SpecManual == InitManual /\ [][NextManual]_vars

\* ------------------------------------------------- one coroutine on the client
\* The client's callers run one coroutine at a time: logins, discoveries and
\* RPC calls in any number and order, then refresh cycles up to the first one
\* that completes (data is written by async_update and read by no client code,
\* so a cycle starts from every state the earlier calls can leave); the
\* clear_cache service may run at any await.
Init ==
    /\ InitCooldownVars({NoOption}) /\ InitManualVars /\ InitHassVars
    /\ InitClientVars({1}) /\ InitRpcVars({NoResponse}) /\ InitIdleRest
Next ==
    \/ \E e \in EnabledSets : ~data.present /\ async_update(1, e)
    \/ ~data.present /\ api_call(1)
    \/ ~data.present /\ async_discover_bundle_version(1)
    \/ ~data.present /\ async_login(1)
    \/ Respond(1, Tokens, Rosters)
    \/ clear_auth_cache
Spec == Init /\ [][Next]_vars

\* ------------------------------------------------ two coroutines on the client
TaskIds == {1, 2}
InitRace ==
    /\ InitCooldownVars({NoOption}) /\ InitManualVars /\ InitHassVars
    /\ InitClientVars(TaskIds) /\ InitRpcVars({NoResponse}) /\ InitIdleRest
NextRace ==
    \/ \E t \in TaskIds : api_call(t)
    \/ \E t \in TaskIds : async_discover_bundle_version(t)
    \/ \E t \in TaskIds : Respond(t, RaceTokens, RaceRosters)
SpecRace == InitRace /\ [][NextRace]_vars

\* ------------------------------------------------ refresh cycles left alone
\* As Spec, but the clear_cache service runs only between the coroutines.
NextCycle ==
    \/ \E e \in EnabledSets : ~data.present /\ async_update(1, e)
    \/ ~data.present /\ api_call(1)
    \/ ~data.present /\ async_discover_bundle_version(1)
    \/ ~data.present /\ async_login(1)
    \/ Respond(1, Tokens, Rosters)
    \/ tasks[1].op = "idle" /\ clear_auth_cache
SpecCycle == Init /\ [][NextCycle]_vars

\* ---------------------------------------------------------- _api_call alone
InitRpc ==
    /\ InitCooldownVars({NoOption}) /\ InitManualVars /\ InitHassVars
    /\ InitClientVars({}) /\ InitRpcVars(RpcResponses) /\ InitIdleRest
NextRpc == ApiCallResponse
SpecRpc == InitRpc /\ [][NextRpc]_vars

\* ------------------------------------------------ one refresh after another
\* The coordinator calls async_update again and again, with any enabled
\* features each time; the clear_cache service runs between the cycles.
RefreshEnabledSets == {{}, {"homework", "exams"}, {"homework", "grades"}}
NextRefresh ==
    \/ \E e \in RefreshEnabledSets : async_update(1, e)
    \/ Respond(1, Tokens, LoginRosters)
    \/ tasks[1].op = "idle" /\ clear_auth_cache
SpecRefresh == Init /\ [][NextRefresh]_vars

\* ------------------------------------------------- the script loop alone
InitScripts ==
    /\ InitCooldownVars({NoOption}) /\ InitManualVars /\ InitHassVars
    /\ InitClientVars({}) /\ InitRpcVars({NoResponse})
    /\ InitAuthVars({None}, {TRUE}) /\ InitPureVars(ScriptLists)
NextScripts == DiscoverRuns
SpecScripts == InitScripts /\ [][NextScripts]_vars

\* ------------------------------------- the salt, login and RPC calls one by one
\* A client, with or without an institution id and with a password that can or
\* cannot be encoded, either logs in any number of times or makes one RPC call
\* whose response carries no results.
TransportResponses == {r \in RpcResponses : r.results = <<>>}
InitAuth ==
    /\ InitCooldownVars({NoOption}) /\ InitManualVars /\ InitHassVars
    /\ InitClientVars({}) /\ InitRpcVars(TransportResponses)
    /\ InitAuthVars({None, 1}, BOOLEAN) /\ InitPureVars({NoArg})
NextAuth ==
    \/ returned = Pending /\ LoginCall
    \/ \E r \in SaltResponses : FetchSaltReturns(r)
    \/ \E r \in LoginResponses : LoginReturns(r)
    \/ attempt.nSalt = 0 /\ ApiCallResponse
SpecAuth == InitAuth /\ [][NextAuth]_vars

\* ------------------------------------------------- one day's lessons displayed
InitSchedule ==
    /\ InitCooldownVars({NoOption}) /\ InitManualVars /\ InitHassVars
    /\ InitClientVars({}) /\ InitRpcVars({NoResponse})
    /\ InitAuthVars({None}, {TRUE}) /\ InitPureVars(ScheduleInputs)
NextSchedule == CalendarRuns \/ SensorRuns
SpecSchedule == InitSchedule /\ [][NextSchedule]_vars

\* ------------------------------------------------------ the grade parser alone
InitGrades ==
    /\ InitCooldownVars({NoOption}) /\ InitManualVars /\ InitHassVars
    /\ InitClientVars({}) /\ InitRpcVars({NoResponse})
    /\ InitAuthVars({None}, {TRUE}) /\ InitPureVars(GradeValues)
NextGrades == ParseGradeRuns
SpecGrades == InitGrades /\ [][NextGrades]_vars

\* ------------------------------------------------- the grades payload alone
InitPayload ==
    /\ InitCooldownVars({NoOption}) /\ InitManualVars /\ InitHassVars
    /\ InitClientVars({}) /\ InitRpcVars({NoResponse})
    /\ InitAuthVars({None}, {TRUE}) /\ InitPureVars(EventLists)
NextPayload == ProcessGradesRuns
SpecPayload == InitPayload /\ [][NextPayload]_vars

\* ------------------------------------------- the schedule changes alone
InitChanges ==
    /\ InitCooldownVars({NoOption}) /\ InitManualVars /\ InitHassVars
    /\ InitClientVars({}) /\ InitRpcVars({NoResponse})
    /\ InitAuthVars({None}, {TRUE}) /\ InitPureVars(ScheduleResponses)
NextChanges == ParseScheduleRuns
SpecChanges == InitChanges /\ [][NextChanges]_vars

\* ------------------------------------------ one login after another: the roster
InitRoster ==
    /\ InitCooldownVars({NoOption}) /\ InitManualVars /\ InitHassVars
    /\ InitClientVars({}) /\ InitRpcVars({NoResponse})
    /\ InitAuthVars({None}, {TRUE}) /\ InitPureVars({<<>>})
NextRoster == \E tok \in Tokens, parents \in ParentLists : LoginExtracts(tok, parents)
SpecRoster == InitRoster /\ [][NextRoster]_vars

\* --------------------------------------- one coordinator refresh after another
InitEvents ==
    /\ InitCooldownVars({NoOption}) /\ InitManualVars /\ InitHassVars
    /\ InitClientVars({}) /\ InitRpcVars({NoResponse}) /\ InitIdleRest
NextEvents ==
    \/ \E d \in UpdateResults : async_update_data(d)
    \/ async_update_data_raises
SpecEvents == InitEvents /\ [][NextEvents]_vars

\* ------------------------------------------- the two grade parsers side by side
InitParsers ==
    /\ InitCooldownVars({NoOption}) /\ InitManualVars /\ InitHassVars
    /\ InitClientVars({}) /\ InitRpcVars({NoResponse})
    /\ InitAuthVars({None}, {TRUE}) /\ InitPureVars(GradeValues)
NextParsers == BothParsersRun
SpecParsers == InitParsers /\ [][NextParsers]_vars

\* ------------------------------------------------- the life of one config entry
InitEntry ==
    /\ InitCooldownVars({NoOption}) /\ InitManualVars /\ InitHassVars
    /\ InitClientVars({}) /\ InitRpcVars({NoResponse}) /\ InitIdleRest
NextEntry ==
    \/ \E ready \in BOOLEAN : async_setup_entry(ready)
    \/ \E options \in FeatureOptions : async_update_entry(options)
    \/ \E how \in {"false", "raised"}, ready \in BOOLEAN : async_reload_entry(how, ready)
    \/ \E how \in {"false", "raised"} : async_unload_entry(how)
SpecEntry == InitEntry /\ [][NextEntry]_vars

\* ------------------------------------------------- the homework list of a student
TodoUids == {make_uid(TodoStudent, item) : item \in HomeworkItems} \cup {""}
InitTodo ==
    /\ InitCooldownVars({NoOption}) /\ InitManualVars /\ InitHassVars
    /\ InitClientVars({}) /\ InitRpcVars({NoResponse}) /\ InitIdleRest
NextTodo ==
    \/ \E hw \in SeqsUpTo(HomeworkItems, MaxItems) : handle_coordinator_update(hw)
    \/ \E uid \in TodoUids, status \in {NEEDS_ACTION, COMPLETED, NoStatus} :
           async_update_todo_item(uid, status)
SpecTodo == InitTodo /\ [][NextTodo]_vars

\* =====================================================================
\* Claims about the cooldown and the manual refresh
\* =====================================================================

\* The cooldown the specification states: the configured minutes, default 5,
\* clamped to 5..30, in ticks.
ExpectedCooldownTicks ==
    LET m == IF refresh_cooldown = NoOption THEN 5
             ELSE IF refresh_cooldown < 5 THEN 5
             ELSE IF refresh_cooldown > 30 THEN 30
             ELSE refresh_cooldown
    IN  m * 60 * TicksPerSecond

\* A step in which some caller's request is accepted and the refresh dispatched.
DispatchStep == \E p \in Callers : pc[p] = "idle" /\ pc'[p] = "refreshing"

\* C1: every dispatch of a refresh stamps the cooldown in the same
\* uninterrupted step, and it happens only when no refresh was dispatched
\* during the cooldown window before it: at most one dispatch per window,
\* whether or not an earlier refresh is still in flight.
C1_OneDispatchPerWindow ==
    [][DispatchStep =>
          /\ last_manual_refresh' = now
          /\ (lastDispatchAt = None \/ now - lastDispatchAt >= ExpectedCooldownTicks)]_vars

\* C1 witness: a refresh has been in flight for a minute or more and a request
\* made at this instant, inside the window, was rejected.
C1_Witness ==
    \E p \in Callers :
        /\ pc[p] = "refreshing"
        /\ elapsed # None /\ elapsed >= TicksPerMinute
        /\ ~can_refresh
        /\ manualResult.raised # "none"
        /\ manualResult.remaining = get_remaining_cooldown

\* A step of one of the two entry points of the manual refresh.
ManualRequestStep == \E p \in Callers : async_press(p) \/ refresh_service(p)

C3_CanRefreshIffElapsed ==
    /\ can_refresh <=> (elapsed = None \/ elapsed >= ExpectedCooldownTicks)
    /\ (elapsed = 0 => ~can_refresh)

\* C3 witness: an out-of-range option (45 minutes) was clamped, and exactly
\* the clamped duration after record_refresh() the refresh is allowed again.
C3_Witness ==
    /\ refresh_cooldown = 45
    /\ elapsed = ExpectedCooldownTicks
    /\ can_refresh

\* C4 (as claimed): get_remaining_cooldown() is 0 exactly when can_refresh()
\* is true, otherwise the ceiling of the remaining time in seconds (so >= 1),
\* and the full cooldown right after record_refresh().
C4_RemainingIsCeiling ==
    /\ (get_remaining_cooldown = 0) <=> can_refresh
    /\ (elapsed # None /\ elapsed < ExpectedCooldownTicks) =>
          /\ get_remaining_cooldown >= 1
          /\ (get_remaining_cooldown - 1) * TicksPerSecond < ExpectedCooldownTicks - elapsed
          /\ ExpectedCooldownTicks - elapsed <= get_remaining_cooldown * TicksPerSecond
    /\ (elapsed = 0 => get_remaining_cooldown * TicksPerSecond = ExpectedCooldownTicks)

\* The fetches of a cycle in the loop's order: per roster student homework,
\* schedule, exams, grades; and those of them that are enabled.
AllFetches(roster) ==
    [k \in 1 .. (Len(roster) * Len(FeatureOrder)) |->
        <<roster[((k - 1) \div Len(FeatureOrder)) + 1],
          FeatureOrder[((k - 1) % Len(FeatureOrder)) + 1]>>]
EnabledFetches(roster, enabled) ==
    SelectSeq(AllFetches(roster), LAMBDA p : p[2] \in enabled)
IsPrefix(s, r) == Len(s) <= Len(r) /\ \A k \in 1 .. Len(s) : s[k] = r[k]

\* C5: whatever fetches of an async_update fail, the update returns (does not
\* raise), it attempts every enabled fetch of every roster student in the
\* loop's order (homework, schedule, exams, grades per student), and its
\* snapshot has an entry for every roster student under each of the four
\* features, the failed ones holding the empty default.
C5_PartialFailure ==
    LET t == tasks[1]
    IN  /\ (t.op = "update" /\ t.loop) =>
               IsPrefix(t.attempted, EnabledFetches(t.roster, t.enabled))
        /\ (t.op = "idle" /\ t.loop) =>
               /\ t.outcome = "returned"
               /\ t.attempted = EnabledFetches(t.roster, t.enabled)
               /\ data.present
               /\ data.students = t.roster
               /\ DOMAIN data.entries = Range(t.roster) \X Features
               /\ \A p \in t.raised : data.entries[p] = "empty"

\* C5 witness: an update of two students has returned; a fetch of the first
\* student failed and a later fetch of the second student delivered data.
C5_Witness ==
    LET t == tasks[1]
    IN  /\ t.op = "idle" /\ t.loop /\ t.outcome = "returned"
        /\ Len(t.roster) = 2
        /\ \E p \in t.raised : p[1] = t.roster[1]
        /\ \E f \in Features : data.entries[<<t.roster[2], f>>] = "data"

\* C6: within one async_update the login request and the bundle-version
\* discovery are each performed at most once, whatever the roster, the enabled
\* features and the outcomes of login and discovery.
C6_AuthOncePerCycle ==
    (tasks[1].op = "update" \/ tasks[1].loop) =>
        tasks[1].nLogin # "repeated" /\ tasks[1].nIndex # "repeated"

\* C7: two operations that ensure authentication concurrently never have two
\* logins in flight, nor two discovery runs.
AuthWaits == {"salt", "login"}
DiscoveryWaits == {"index", "script"}
C7_SingleFlight ==
    /\ Cardinality({t \in DOMAIN tasks : tasks[t].wait \in AuthWaits}) <= 1
    /\ Cardinality({t \in DOMAIN tasks : tasks[t].wait \in DiscoveryWaits}) <= 1

\* C8: a step that drops the token or the bundle version drops both; and an
\* RPC call or update begun after clear_auth_cache() sends an authenticated
\* request only after a login and a discovery have been performed since.
RequestWaits == {"calls", "subjects"}
C8_ClearThenReauth ==
    [][ /\ ((token # NoToken /\ token' = NoToken)
              \/ (bundle_version # NoBundle /\ bundle_version' = NoBundle))
            => (token' = NoToken /\ bundle_version' = NoBundle)
        /\ \A t \in DOMAIN tasks :
             (tasks'[t] # tasks[t] /\ tasks'[t].wait \in RequestWaits
                 /\ ~tasks'[t].stale)
             => (loginSinceClear' /\ discoverySinceClear') ]_vars

\* C9: with a token and a bundle version cached, a step of an RPC call, an
\* update or a discover call sends no salt, login, index-page or script
\* request and leaves the cached token and bundle version as they are.
C9_CachedNoAuthTraffic ==
    [][ (/\ token # NoToken /\ bundle_version # NoBundle
         /\ [tasks'[1] EXCEPT !.stale = FALSE] # [tasks[1] EXCEPT !.stale = FALSE]
         /\ tasks[1].op # "login" /\ tasks'[1].op # "login")
        => (/\ tasks'[1].wait \notin AuthWaits \cup DiscoveryWaits
            /\ tasks'[1].nLogin = (IF tasks[1].op = "idle" THEN "none" ELSE tasks[1].nLogin)
            /\ tasks'[1].nIndex = (IF tasks[1].op = "idle" THEN "none" ELSE tasks[1].nIndex)
            /\ token' = token
            /\ bundle_version' = bundle_version) ]_vars

\* C9 witness: an RPC call or update that found both cached has posted its
\* request, having sent no login and no index request.
C9_Witness ==
    /\ token # NoToken /\ bundle_version # NoBundle
    /\ tasks[1].op \in {"rpc", "update"}
    /\ tasks[1].wait = "calls"
    /\ tasks[1].nLogin = "none" /\ tasks[1].nIndex = "none"
    /\ ~tasks[1].stale

\* C10: _api_call raises when the HTTP status is not 200; returns an empty
\* list when the status is 200 and the results array is empty or missing, or
\* when the first result's sub-status is not 200; and otherwise returns the
\* first result's data.  Only the first result is consulted.
C10_ApiCallResult ==
    returned # Pending =>
        LET results == IF response.has_results THEN response.results ELSE <<>>
        IN  IF response.status # HTTP_OK THEN returned.kind = "raise"
            ELSE IF results = <<>> THEN returned = Return("[]")
            ELSE IF results[1].status \notin {None, HTTP_OK}
                 THEN returned = Return("[]")
                 ELSE /\ results[1].data # "absent"
                      /\ returned = Return(results[1].data)

\* C11: a response body that is not JSON makes the salt call, the login call
\* and the RPC call raise at once, whatever the HTTP status, and the call is
\* not sent again.
C11_NonJsonRaises ==
    /\ attempt.resp.body = "text" =>
           /\ attempt.pc = "idle"
           /\ attempt.outcome.kind = "raise"
           /\ attempt.nSalt = 1 /\ attempt.nLogin <= 1
    /\ (returned # Pending /\ response.body = "text") => returned.kind = "raise"

\* C12: a status-200 login response with multipleAccounts of K entries stores
\* the K accounts, sets no token and raises nothing; the token changes only on
\* a login response that carries a jwt, and to that jwt.
C12_MultipleAccounts ==
    [][ /\ (/\ attempt.pc = "login" /\ attempt'.pc = "idle"
            /\ attempt'.resp.body = "object" /\ attempt'.resp.status = HTTP_OK
            /\ attempt'.resp.accounts > 0)
           => (/\ multiple_accounts' = attempt'.resp.accounts
               /\ token' = token
               /\ attempt'.outcome.kind = "return")
        /\ token' # token
           => (/\ attempt.pc = "login"
               /\ attempt'.resp.jwt # NoToken
               /\ token' = attempt'.resp.jwt) ]_vars

\* C12 witness: a login answered with MaxAccounts accounts (and a jwt beside
\* them) has returned with the accounts stored and no token.
C12_Witness ==
    /\ attempt.pc = "idle" /\ attempt.outcome = Success("multipleAccounts")
    /\ attempt.resp.accounts = MaxAccounts /\ attempt.resp.jwt # NoToken
    /\ multiple_accounts = MaxAccounts
    /\ token = NoToken

\* The login response is one of the failures: no JSON, a status other than
\* 200, or neither multipleAccounts nor a jwt.
FailedLoginResponse(r) ==
    \/ r.body = "text"
    \/ r.body = "object" /\ r.status # HTTP_OK
    \/ r.body = "object" /\ r.accounts = 0 /\ r.jwt = NoToken

\* C13: a login attempt that gets a failed login response raises, leaves the
\* token, the roster and the institution id as they were before the attempt,
\* and sends no second login request.
C13_FailedLoginFrame ==
    [][ (/\ attempt.pc = "login" /\ attempt'.pc = "idle"
         /\ FailedLoginResponse(attempt'.resp))
        => (/\ attempt'.outcome.kind = "raise"
            /\ token' = attempt.before.token
            /\ students' = attempt.before.students
            /\ institution_id' = attempt.before.institution_id
            /\ attempt'.nSalt = 1 /\ attempt'.nLogin = 1) ]_vars

\* C13 witness: a client that holds a token and a roster from an earlier login
\* has made an attempt that failed with a non-200 response carrying a jwt.
C13_Witness ==
    /\ attempt.pc = "idle" /\ attempt.outcome.kind = "raise"
    /\ attempt.nLogin = 1
    /\ attempt.resp.body = "object" /\ attempt.resp.status = HTTP_ERROR
    /\ attempt.resp.jwt # NoToken /\ attempt.resp.roster = <<>>
    /\ token # NoToken /\ students # <<>>

\* The class of the exception a failed RPC call raises.
RpcFailureClass == api_call_result([NoResponse EXCEPT !.status = HTTP_ERROR]).value

\* C14: an authentication failure (failed login response, salt response that
\* is no JSON, password that Latin-1 cannot encode) reaches the caller as one
\* error condition, which is not the one a failed RPC call raises; with such
\* a password no login request is sent and the token stays as it was.
C14_AuthErrorDistinct ==
    /\ (attempt.outcome.kind = "raise" /\ attempt.resp.body # "neterr") =>
           /\ attempt.outcome.class # RpcFailureClass
           /\ attempt.outcome.class = pbkdf2_hash_hex_result(FALSE).class
    /\ (attempt.pc = "idle" /\ ~attempt.latin1 /\ attempt.nSalt = 1) =>
           /\ attempt.nLogin = 0
           /\ attempt.outcome.kind = "raise"
           /\ token = attempt.before.token

\* The scripts of a list in which some pattern matches.
HitScripts(scripts) ==
    {k \in DOMAIN scripts :
        /\ scripts[k].fetched
        /\ \/ scripts[k].literal # NoBundle
           \/ scripts[k].ident # NoBundle
           \/ scripts[k].near # NoBundle}
FirstOf(S) == CHOOSE k \in S : \A j \in S : k <= j

\* C15: discovery returns what the first matching strategy, in the order
\* literal, identifier, proximity, finds in the first script in discovery
\* order in which any strategy matches, and not-found when there is no such
\* script.
C15_FirstHitWins ==
    res # Pending =>
        IF HitScripts(arg) = {} THEN res = Return(NoBundle)
        ELSE LET s == arg[FirstOf(HitScripts(arg))]
             IN  res = Return(IF s.literal # NoBundle THEN s.literal
                              ELSE IF s.ident # NoBundle THEN s.ident
                              ELSE s.near)

\* C15 witness: the first script could not be fetched, the second matches
\* the identifier and the proximity pattern but not the literal one, and
\* discovery returned the identifier's value.
C15_Witness ==
    /\ res # Pending
    /\ Len(arg) = MaxScripts
    /\ ~arg[1].fetched
    /\ arg[MaxScripts].literal = NoBundle
    /\ arg[MaxScripts].ident # NoBundle /\ arg[MaxScripts].near # NoBundle
    /\ res = Return(arg[MaxScripts].ident)

\* The coroutine took a step of its own (stale is set by clear_auth_cache).
TaskStep(t) == [tasks'[t] EXCEPT !.stale = FALSE] # [tasks[t] EXCEPT !.stale = FALSE]

\* C16: whatever answer the request for the portal root page gets, a network
\* error included, discovery does not raise: neither the RPC call, the
\* discover call or the update fails, nor the fetch in whose
\* ensure_authenticated the discovery runs.
C16_IndexFailsSoft ==
    [][ (/\ tasks[1].wait = "index" /\ tasks[1].site # "feature"
         /\ TaskStep(1))
        => (/\ tasks'[1].outcome # "raised"
            /\ tasks'[1].raised = tasks[1].raised) ]_vars

\* The feature the update's coroutine is fetching.
CurFeature(t) == FeatureOrder[tasks[t].f]
NeedsBundle == {"schedule", "exams", "grades"}

\* C17: discovery never touches the token; in an update, a schedule, exams or
\* grades fetch whose discovery ends without a bundle version fails before
\* its request is sent, so none of them ever has a request out while no
\* bundle version is known; a homework fetch whose discovery ends without
\* raising posts its RPC call, bundle version or not.
C17_FailsWhereNeeded ==
    [][ /\ (tasks[1].wait \in DiscoveryWaits /\ TaskStep(1)) => token' = token
        /\ (/\ tasks'[1].op = "update" /\ tasks'[1].wait = "calls"
            /\ CurFeature(1)' \in NeedsBundle)
           => bundle_version' # NoBundle
        /\ (/\ tasks[1].op = "update" /\ tasks[1].wait \in DiscoveryWaits
            /\ tasks[1].site = "feature" /\ TaskStep(1)
            /\ tasks'[1].wait \notin DiscoveryWaits
            /\ bundle_version' = NoBundle)
           => CurPair(Machine(1)) \in tasks'[1].raised
        /\ (/\ tasks[1].op = "update" /\ tasks[1].wait \in DiscoveryWaits
            /\ tasks[1].site = "api" /\ TaskStep(1)
            /\ tasks'[1].wait \notin DiscoveryWaits
            /\ tasks'[1].raised = tasks[1].raised)
           => (tasks'[1].wait = "calls" /\ CurFeature(1)' = "homework") ]_vars

\* C17 witness: an update holds a token from its login, its discovery found
\* nothing, the schedule fetch of the first student has failed with the hard
\* error, and the homework call of the second student is out all the same.
C17_Witness ==
    /\ tasks[1].op = "update" /\ tasks[1].wait = "calls"
    /\ CurFeature(1) = "homework" /\ tasks[1].i = 2
    /\ <<tasks[1].roster[1], "schedule">> \in tasks[1].raised
    /\ tasks[1].result[<<tasks[1].roster[1], "homework">>] = "data"
    /\ tasks[1].nLogin = "once"
    /\ token # NoToken /\ bundle_version = NoBundle

\* C18: the snapshot an async_update leaves in client.data is this cycle's
\* roster and this cycle's results and nothing else: a fetch that failed or
\* is disabled holds the empty default whatever the replaced snapshot held,
\* and client.data changes only when an update returns.
C18_RebuiltInFull ==
    [][ /\ data' # data =>
            (tasks[1].op \in {"idle", "update"} /\ tasks'[1].op = "idle"
                /\ tasks'[1].loop /\ tasks'[1].outcome = "returned")
        /\ (tasks'[1].op = "idle" /\ tasks'[1].loop) =>
            /\ data'.present
            /\ data'.students = tasks'[1].roster
            /\ data'.entries = tasks'[1].result
            /\ DOMAIN data'.entries = Range(tasks'[1].roster) \X Features
            /\ \A p \in DOMAIN data'.entries :
                  (p \in tasks'[1].raised \/ p[2] \notin tasks'[1].enabled)
                      => data'.entries[p] = "empty" ]_vars

\* C18 witness: a cycle has replaced a snapshot that held data for a fetch
\* which failed in this cycle and for a feature which is disabled in it.
C18_Witness ==
    /\ tasks[1].op = "idle" /\ tasks[1].loop /\ data.present
    /\ \E p \in tasks[1].raised :
          p \in DOMAIN data.replaced /\ data.replaced[p] = "data"
    /\ \E p \in DOMAIN data.entries :
          /\ p[2] \notin tasks[1].enabled
          /\ p \in DOMAIN data.replaced /\ data.replaced[p] = "data"

\* ---------------------------------------------------------------------
\* Claims about the displayed schedule
\* The lesson a unit stands for, and the units displayed for hour h.
UnitLesson(u) == IF u.primary # 0 THEN u.primary ELSE u.original
UnitsOfHour(h) ==
    {k \in DOMAIN res.value.units :
        arg.lessons[UnitLesson(res.value.units[k])].hour = h}
\* hour h holds a cancelled and a non-cancelled lesson
SharedHour(h) ==
    /\ \E i \in DOMAIN arg.lessons : arg.lessons[i].hour = h /\ IsCancelled(arg.lessons, i)
    /\ \E i \in DOMAIN arg.lessons : arg.lessons[i].hour = h /\ ~IsCancelled(arg.lessons, i)

\* C19: for any day's lesson list in which a cancelled and a non-cancelled
\* lesson share an hour, the calendar and the schedule sensor display exactly
\* one unit for that hour; its primary is a non-cancelled lesson of the hour,
\* a reference it carries is to a cancelled lesson of the hour, and no
\* cancelled lesson is displayed as a unit of its own.
C19_OneUnitPerSharedHour ==
    res.kind = "return" =>
        \A h \in Hours : SharedHour(h) =>
            /\ Cardinality(UnitsOfHour(h)) = 1
            /\ \A k \in UnitsOfHour(h) :
                LET u == res.value.units[k]
                IN  /\ u.primary # 0
                    /\ ~IsCancelled(arg.lessons, u.primary)
                    /\ arg.lessons[u.primary].hour = h
                    /\ u.original # 0 =>
                        /\ IsCancelled(arg.lessons, u.original)
                        /\ arg.lessons[u.original].hour = h

\* ---------------------------------------------------------------------
\* Claims about the grade parser
Separators(t) == {k \in DOMAIN t : t[k] = "~"}
EndsInTendency(t) == t # <<>> /\ t[Len(t)] \in {"+", "-"}
WithoutTendency(t) == IF EndsInTendency(t) THEN SubSeq(t, 1, Len(t) - 1) ELSE t
\* the grade texts d, d.f, d+, d-, d~d, d~d+ and d~d- with a grade digit d
GradeDigits == {"3"}
PlainGrades ==
    {<<d>> : d \in GradeDigits}
    \cup {<<d, ".", f>> : d \in GradeDigits, f \in Digits}
ValidGradeTexts ==
    PlainGrades
    \cup {<<d, sign>> : d \in GradeDigits, sign \in {"+", "-"}}
    \cup {<<c, "~", d>> : c \in Digits, d \in GradeDigits}
    \cup {<<c, "~", d, sign>> : c \in Digits, d \in GradeDigits, sign \in {"+", "-"}}
InGradeRange(f) ==
    /\ f.defined /\ ~f.neg
    /\ f.whole >= 1
    /\ f.whole < 6 \/ (f.whole = 6 /\ f.frac = 0)

\* C20: the parser maps a number to itself; a text with one '~' to the float
\* of the part after it with a trailing '+' or '-' stripped; a text ending in
\* '+' or '-' to the float of the rest; a plain decimal text to its float;
\* nothing, an empty text and a text with more than one '~' to none; and every
\* valid grade text d, d.f, d+, d-, d~d, d~d+, d~d- to a float in [1.0, 6.0].
C20_GradeParser ==
    res.kind = "return" =>
        LET t == strip(arg.chars)
            n == Cardinality(Separators(t))
        IN  /\ arg.kind = "num" => res.value = Float(FALSE, arg.num, 0, 0)
            /\ arg.kind = "none" => res.value = NoGrade
            /\ (arg.kind = "str" /\ n > 1) => res.value = NoGrade
            /\ (arg.kind = "str" /\ n = 1) =>
                    res.value = float_of_text(WithoutTendency(split_second(t)))
            /\ (arg.kind = "str" /\ n = 0) =>
                    res.value = float_of_text(WithoutTendency(t))
            /\ (arg.kind = "str" /\ arg.chars \in ValidGradeTexts) =>
                    InGradeRange(res.value)

\* ---------------------------------------------------------------------
\* Claims about the grades payload
\* q is num / den rounded to the nearest whole
IsRounded(q, num, den) == 2 * (IF q * den >= num THEN q * den - num ELSE num - q * den) <= den
\* the events of subject s whose value parses into [1.0, 6.0], in hundredths
ParsesInRange(v) == InGradeRange(parse_german_grade(v))
SubjectValid(s) ==
    LET Counted(e) == e.subject = s /\ ParsesInRange(e.value)
        counted == SelectSeq(arg, Counted)
    IN  [k \in DOMAIN counted |-> Cents(parse_german_grade(counted[k].value))]
SubjectsGraded == {s \in DOMAIN res.value.subjects : res.value.subjects[s].average # None}
RECURSIVE AverageTotal(_)
AverageTotal(S) ==
    IF S = {} THEN 0
    ELSE LET x == CHOOSE x \in S : TRUE
         IN  res.value.subjects[x].average + AverageTotal(S \ {x})

\* the values of the events of subject s and grade type c that carry a value,
\* and the values the payload lists there
EventValues(s, c) ==
    LET Of(e) == e.subject = s /\ e.type = c /\ ~Falsy(e.value)
        of == SelectSeq(arg, Of)
    IN  [k \in DOMAIN of |-> of[k].value]
ListedValues(s, c) ==
    IF c \in DOMAIN res.value.subjects[s].grades
    THEN [k \in DOMAIN res.value.subjects[s].grades[c] |->
            res.value.subjects[s].grades[c][k].original_value]
    ELSE <<>>

ResponseLessons == IF arg # <<>> /\ arg[1].status = HTTP_OK THEN arg[1].data ELSE <<>>
ChangedPositions(day) ==
    LET positions == [k \in DOMAIN ResponseLessons |-> k]
        Changed(k) == ResponseLessons[k].day = day /\ ResponseLessons[k].type # "regularLesson"
    IN  SelectSeq(positions, Changed)
ChangePositions(changes) == [k \in DOMAIN changes |-> changes[k].lesson]
Headings(summary) ==
    LET IsHeading(x) == x.part \in {"Heute", "Morgen"}
    IN  SelectSeq(summary, IsHeading)
Heading(name, n) ==
    [part |-> name, count |-> n, word |-> IF n = 1 THEN "Aenderung" ELSE "Aenderungen"]

\* C22: changes.today and changes.tomorrow hold exactly one change, in
\* response order, for each lesson of that day whose type is not
\* regularLesson and none for regular lessons; the summary is the fixed
\* sentence exactly when both lists are empty, and otherwise it states the
\* count of each non-empty day, as '1 Aenderung' or 'N Aenderungen'.
C22_ChangesAndSummary ==
    res.kind = "return" =>
        /\ ChangePositions(res.value.today) = ChangedPositions(0)
        /\ ChangePositions(res.value.tomorrow) = ChangedPositions(1)
        /\ (res.value.summary = FixedSummary)
                <=> (res.value.today = <<>> /\ res.value.tomorrow = <<>>)
        /\ res.value.summary # FixedSummary =>
                Headings(res.value.summary) =
                    (IF res.value.today = <<>> THEN <<>>
                     ELSE <<Heading("Heute", Len(res.value.today))>>)
                    \o (IF res.value.tomorrow = <<>> THEN <<>>
                        ELSE <<Heading("Morgen", Len(res.value.tomorrow))>>)

\* C22 witness: of the lessons of a response, a regular lesson yields no
\* change, a lesson of today without a type tag yields the one change of
\* today, and tomorrow has a change too: two headings and one line per change.
C22_Witness ==
    /\ res.kind = "return"
    /\ Len(ResponseLessons) = MaxDatedLessons
    /\ \E k \in DOMAIN ResponseLessons :
            ResponseLessons[k].day \in {0, 1} /\ ResponseLessons[k].type = "regularLesson"
    /\ \E k \in DOMAIN ResponseLessons :
            ResponseLessons[k].day = 0 /\ ResponseLessons[k].type = NoType
    /\ Len(res.value.today) = 1
    /\ Len(res.value.tomorrow) >= 1
    /\ Len(res.value.summary) = Len(res.value.today) + Len(res.value.tomorrow) + 2

\* ---------------------------------------------------------------------
\* Claims about the roster
\* the parents of the last login response that carry a student id
WithStudentId == LET HasId(q) == q.id # None IN SelectSeq(arg, HasId)

\* C23: after every login that yields a token the roster is exactly the
\* students of the response's associated-parent records that carry a student
\* id, in response order, the id as a string and the name falling back to
\* 'Schueler' when first and last name are both empty; no student of an
\* earlier login remains.
C23_RosterFromLastLogin ==
    token # NoToken =>
        /\ Len(students) = Len(WithStudentId)
        /\ \A k \in DOMAIN students :
            /\ students[k].id = ToString(WithStudentId[k].id)
            /\ students[k].id \in {"7", "8"}
            /\ (WithStudentId[k].firstname = "" /\ WithStudentId[k].lastname = "")
                    <=> students[k].name = "Schueler"
            /\ students[k].name = student_name(WithStudentId[k])

\* C23 witness: the last login response had a record without a student id,
\* which is skipped, and a student without a name.
C23_Witness ==
    /\ token # NoToken
    /\ Len(arg) = MaxParents
    /\ arg[1].id = None
    /\ students = <<[id |-> "8", name |-> "Schueler"]>>

\* ---------------------------------------------------------------------
\* Claims about the session across failed calls
\* The coroutine's call (or a fetch of its loop) ended in an exception, or the
\* response to its POST to the calls endpoint arrived.
FailedStep(t) ==
    /\ tasks[t].op # "idle"
    /\ \/ tasks'[t].op = "idle" /\ tasks'[t].outcome = "raised"
       \/ tasks'[t].op # "idle" /\ tasks'[t].raised # tasks[t].raised
       \/ tasks[t].wait = "calls" /\ TaskStep(t)
\* The coroutine calls async_login: its request for the salt goes out.
LoginRequested(t) == TaskStep(t) /\ tasks'[t].wait = "salt" /\ tasks[t].wait # "salt"

\* C24: a call or fetch that fails leaves the token and the bundle version as
\* they are; the token changes only when a login response sets it or
\* clear_auth_cache clears it; and while the client holds a token, no refresh
\* and no RPC logs in again, whatever the server answers, until
\* clear_auth_cache runs.
C24_FailureKeepsSession ==
    [][ /\ FailedStep(1) => (token' = token /\ bundle_version' = bundle_version)
        /\ token' # token =>
              \/ token' # NoToken /\ tasks[1].wait = "login" /\ TaskStep(1)
              \/ token' = NoToken /\ bundle_version' = NoBundle /\ ~TaskStep(1)
        /\ (token # NoToken /\ tasks'[1].op \in {"update", "rpc"}) => ~LoginRequested(1) ]_vars

\* C24 witness: a client that holds a token and a snapshot ends a further
\* refresh in which fetches failed on the server's answers; the refresh sent
\* no login request and the token is still held.
C24_Witness ==
    /\ token # NoToken
    /\ data.present /\ data.replaced # EmptyEntries
    /\ tasks[1].op = "idle" /\ tasks[1].loop /\ tasks[1].outcome = "returned"
    /\ tasks[1].raised # {}
    /\ tasks[1].nLogin = "none"

\* ---------------------------------------------------------------------
\* Claims about the subject list
\* C25: the subject-list lookup is requested at most once per session: after
\* the first attempt, whatever its answer, no coroutine of the client sends a
\* further subject-list request.
C25_SubjectsRequestedOnce == subjectRequests # "repeated"

\* ---------------------------------------------------------------------
\* Claims about the events for new homework and grades
NewKeys ==
    {<<HomeworkNew, k>> : k \in refreshLog.last_homework \ refreshLog.earlier_homework}
        \cup {<<GradeNew, k>> : k \in refreshLog.last_grades \ refreshLog.earlier_grades}
EventsAsExpected ==
    CASE refreshLog.outcome = "first" ->
             /\ fired_events = <<>>
             /\ seen_homework = refreshLog.last_homework
             /\ seen_grades = refreshLog.last_grades
      [] refreshLog.outcome = "later" ->
             /\ FiredKeys = NewKeys
             /\ Len(fired_events) = Cardinality(NewKeys)
             /\ FiredKeys \cap refreshLog.fired_before = {}
      [] OTHER -> fired_events = <<>>

\* C26: the first successful refresh fires no event and only seeds the seen
\* sets; each later refresh fires exactly one event for each homework or grade
\* key that no earlier refresh held, no key fires a second time, also after
\* its item was gone from a payload and came back; the seen sets only grow.
C26_NewItemEvents ==
    [][ /\ EventsAsExpected'
        /\ seen_homework \subseteq seen_homework'
        /\ seen_grades \subseteq seen_grades' ]_vars
\* a later refresh in which a key that had been gone is back and stays silent
\* while another key fires for the first time
C26_Witness ==
    /\ refreshLog.outcome = "later"
    /\ refreshLog.reappeared # {}
    /\ fired_events # <<>>
    /\ \A e \in Range(fired_events) : e.key \notin refreshLog.reappeared
    /\ \E k \in refreshLog.reappeared : \E t \in {HomeworkNew, GradeNew} :
           <<t, k>> \in refreshLog.fired_before

\* ---------------------------------------------------------------------
\* Claims about the grade sensor's parser
\* C27: GradeSensor._parse_german_grade and the client's _parse_german_grade
\* return the same result, the same float or None, for every grade value.
C27_SameParse ==
    res.kind = "return" => res.value.client = res.value.sensor

\* ---------------------------------------------------------------------
\* Claims about the Authorization header
\* C28: every request a coroutine of the client sends to the calls endpoint
\* carries a token obtained by a successful login; none is sent while the
\* client holds no token.
C28_CallsCarryToken ==
    \A t \in DOMAIN tasks : tasks[t].auth # NoToken

\* ---------------------------------------------------------------------
\* Claims about the entry's platforms
\* C29: async_unload_entry unloads exactly the platforms the preceding
\* async_setup_entry set up: after it none of them stays loaded and none is
\* asked for that was never loaded, also after an options change.
C29_UnloadMatchesSetup ==
    unloadLog.happened => unloadLog.asked = unloadLog.loaded_before

\* ---------------------------------------------------------------------
\* Claims about the homework list
\* C30: after a coordinator update, an item whose uid was in the list just
\* before has the status last set for that uid through async_update_todo_item
\* (needs-action if none was set), an item whose uid was not in that list is
\* needs-action, and the list holds the items of the latest payload and no
\* others.
C30_StatusKeptByUid ==
    todoLog.last = "coordinator_update" =>
        /\ \A k \in DOMAIN todo_items :
               todo_items[k].status =
                   IF todo_items[k].uid \in todoLog.previous
                   THEN todoLog.set_status[todo_items[k].uid]
                   ELSE NEEDS_ACTION
        /\ [k \in DOMAIN todo_items |-> todo_items[k].uid] = todoLog.payload

====
